---- MODULE Spec2Model ----
(***************************************************************************)
(* ETA fusion and delay attribution of the eta-tracker backend:            *)
(*   backend/weather_api.py    WeatherAPI   (multiplier, worst-of)         *)
(*   backend/traffic_client.py TrafficAPI   (samplers, cache, multiplier)  *)
(*   backend/valhalla_client.py ValhallaRouter.calculate_eta_with_traffic  *)
(*   backend/app.py  compute_eta_with_routing, score_delay_reason,         *)
(*                   ingest_positions                                      *)
(*                                                                         *)
(* Number representation (the code computes in floats):                    *)
(*   multipliers and speed ratios   hundredths          0.4  -> 40         *)
(*   precipitation, wind            hundredths          12.0 -> 1200       *)
(*   magnitudes printed with :.1f   tenths              "12.0" -> 120      *)
(*   scores and confidences         1/3600              0.90 -> 3240       *)
(*   time                           ticks, TicksPerMin ticks to the minute *)
(* TicksPerMin is chosen so that dividing a whole number of minutes by any *)
(* multiplier the model produces is exact.                                 *)
(***************************************************************************)
EXTENDS Integers, Sequences, FiniteSets, TLC

VARIABLES
    fin,        \* input handed to the function under study (pure-function specs)
    fout,       \* what the function returned
    pc,         \* position of the ingest_positions handler
    shipment,   \* the shipment row and its stops, as the store returns them
    latest_pos, \* db.get_latest_position(vehicle_id)
    idx,        \* loop index of compute_eta_with_routing / of the store loop
    cursor,     \* current_lat/current_lon of compute_eta_with_routing
    cumulative_time, \* cumulative_time of compute_eta_with_routing
    etas,       \* the list compute_eta_with_routing builds
    legs,       \* the provider calls of the pass, one record per pending leg
    now,        \* the wall clock (datetime.utcnow())
    traffic_cache, \* TrafficAPI.cache
    weather_cache, \* WeatherAPI.cache
    traffic_data,  \* traffic_data of ingest_positions
    store,      \* rows of the etas table, in insertion order
    response    \* what the handler answered

passVars == <<pc, shipment, latest_pos, idx, cursor, cumulative_time, etas, legs,
              now, traffic_cache, weather_cache, traffic_data, store, response>>
vars == <<fin, fout, pc, shipment, latest_pos, idx, cursor, cumulative_time, etas,
          legs, now, traffic_cache, weather_cache, traffic_data, store, response>>

----------------------------------------------------------------------------
(* Scales *)

TicksPerMin == 2 * 2 * 3 * 3 * 5 * 7 * 17   \* 21420: a tenth of a minute and a minute divided by any multiplier are whole ticks
ScoreUnit == 60 * 60             \* confidences are multiples of 1/3600
Score(pct) == pct * (ScoreUnit \div 100)

Min(a, b) == IF a <= b THEN a ELSE b
Max(a, b) == IF a >= b THEN a ELSE b
Abs(a) == IF a >= 0 THEN a ELSE 0 - a

NoText == <<>>     \* a reason text that is None (or empty): falsy either way

----------------------------------------------------------------------------
(* Reason texts.  A text is a sequence of tokens; a token is a word or a   *)
(* decimal number (in tenths, as printed by :.1f, or a whole number).      *)

W(s) == [t |-> "w", s |-> s, n |-> 0]
N(x) == [t |-> "n", s |-> "", n |-> x]

\* f"{x:.1f}" of a value given in hundredths: the nearest tenth
Fmt1(x) == (x + 5) \div 10

\* "rain" in text.lower(), "wind" in text.lower(): substring of a word
RainWords == {"rain", "Rain", "rainfall", "Rainfall"}
WindWords == {"wind", "winds", "Wind", "Winds"}
ContainsWord(text, words) ==
    \E i \in 1..Len(text) : text[i].t = "w" /\ text[i].s \in words

\* re.search(r'(\d+\.?\d*)\s*<unit>', text): the first number followed by the unit
UnitMatches(text, unit) ==
    {i \in 1..(Len(text) - 1) :
        text[i].t = "n" /\ text[i + 1].t = "w" /\ text[i + 1].s = unit}
HasMagnitude(text, unit) == UnitMatches(text, unit) # {}
FirstMagnitude(text, unit) ==
    LET i == CHOOSE j \in UnitMatches(text, unit) :
                 \A k \in UnitMatches(text, unit) : j <= k
    IN  text[i].n

RECURSIVE JoinAlerts(_)
JoinAlerts(alerts) ==
    IF alerts = <<>> THEN <<>>
    ELSE IF Len(alerts) = 1 THEN alerts[1].event
    ELSE alerts[1].event \o <<W(",")>> \o JoinAlerts(Tail(alerts))

----------------------------------------------------------------------------
(* WeatherAPI: multiplier calculators *)

\* lines 172-194: the precipitation / wind ladder
WeatherLadder(weather) ==
    LET precip == weather.precipitation_mm_h
        wind == weather.wind_speed_kph
    IN  IF precip > 1000 THEN
            [multiplier |-> 60,
             reason |-> <<W("Heavy"), W("rain"), N(Fmt1(precip)), W("mm/h"),
                          W("reducing"), W("speeds"), W("by"), N(400), W("%")>>]
        ELSE IF precip > 500 THEN
            [multiplier |-> 80,
             reason |-> <<W("Moderate"), W("rain"), N(Fmt1(precip)), W("mm/h"),
                          W("reducing"), W("speeds"), W("by"), N(200), W("%")>>]
        ELSE IF precip > 0 THEN
            [multiplier |-> 90,
             reason |-> <<W("Light"), W("rain"), N(Fmt1(precip)), W("mm/h"),
                          W("reducing"), W("speeds"), W("by"), N(100), W("%")>>]
        ELSE IF wind > 4000 THEN
            [multiplier |-> 70,
             reason |-> <<W("High"), W("winds"), N(Fmt1(wind)), W("km/h"),
                          W("reducing"), W("speeds"), W("by"), N(300), W("%")>>]
        ELSE IF wind > 3000 THEN
            [multiplier |-> 85,
             reason |-> <<W("Moderate"), W("winds"), N(Fmt1(wind)), W("km/h"),
                          W("reducing"), W("speeds"), W("by"), N(150), W("%")>>]
        ELSE
            [multiplier |-> 100,
             reason |-> <<W("Clear"), W("weather"), W("conditions")>>]

\* the alert names appended to the reason of the ladder instead of replacing it
AlertClampKeepsReason(base, weather) ==
    IF weather.alerts # <<>>
    THEN [multiplier |-> Min(base.multiplier, 70),
          reason |-> base.reason \o <<W("Weather"), W("alerts:")>>
                     \o JoinAlerts(weather.alerts)]
    ELSE base

\* the alert clamp written as an assignment instead of a min
AlertClampAssign(base, weather) ==
    IF weather.alerts # <<>>
    THEN [multiplier |-> 70,
          reason |-> <<W("Weather"), W("alerts:")>> \o JoinAlerts(weather.alerts)]
    ELSE base

\* lines 196-200: active alerts clamp the multiplier and replace the reason
AlertClamp(base, weather) ==
    IF weather.alerts # <<>>
    THEN [multiplier |-> Min(base.multiplier, 70),
          reason |-> <<W("Weather"), W("alerts:")>> \o JoinAlerts(weather.alerts)]
    ELSE base

calculate_weather_multiplier(weather) == AlertClamp(WeatherLadder(weather), weather)

RECURSIVE WorstFrom(_, _)
WorstFrom(samples, worst) ==
    IF samples = <<>> THEN worst
    ELSE LET m == calculate_weather_multiplier(Head(samples))
         IN  WorstFrom(Tail(samples),
                       IF m.multiplier < worst.multiplier THEN m ELSE worst)

get_worst_weather_condition(weather_samples) ==
    IF weather_samples = <<>>
    THEN [multiplier |-> 100,
          reason |-> <<W("No"), W("weather"), W("data"), W("available")>>]
    ELSE WorstFrom(weather_samples,
                   [multiplier |-> 100, reason |-> <<W("Clear"), W("conditions")>>])

----------------------------------------------------------------------------
(* TrafficAPI: samplers and multiplier *)

NoTraffic == [present |-> FALSE, has_ratio |-> FALSE, speed_ratio |-> 0,
              congestion_level |-> "none", source |-> "none"]

_classify_congestion(speed_ratio) ==
    IF speed_ratio >= 90 THEN "none"
    ELSE IF speed_ratio >= 70 THEN "light"
    ELSE IF speed_ratio >= 40 THEN "moderate"
    ELSE "heavy"

TrafficSample(speed_ratio, source) ==
    [present |-> TRUE, has_ratio |-> TRUE, speed_ratio |-> speed_ratio,
     congestion_level |-> _classify_congestion(speed_ratio), source |-> source]

\* random.uniform(a, b) per hour-of-day bucket: the end points and the middle
MockRatios(hour) ==
    IF (7 <= hour /\ hour <= 9) \/ (17 <= hour /\ hour <= 19) THEN {50, 60, 70}
    ELSE IF 22 <= hour \/ hour <= 5 THEN {90, 100}
    ELSE {70, 80, 90}

\* the samples _get_mock_traffic can return at this hour
_get_mock_traffic(hour) == {TrafficSample(r, "mock") : r \in MockRatios(hour)}

\* a provider answer: status "ok" (a route), "empty" (no route), "error"
\* (time-out, HTTP error, malformed body); durations in seconds
_get_google_traffic(resp, hour) ==
    IF resp.status = "ok" /\ resp.duration_traffic # 0 /\ resp.duration # 0
    THEN LET speed_ratio == IF resp.distance_m > 0
                            THEN (resp.duration * 100) \div resp.duration_traffic
                            ELSE 100
         IN  {TrafficSample(speed_ratio, "google")}
    ELSE _get_mock_traffic(hour)

_get_here_traffic(resp, hour) ==
    IF resp.status = "ok"
    THEN LET moving == resp.duration_traffic > 0 /\ resp.distance_m > 0
             freeflow_pos ==
                 IF resp.duration > 0 THEN resp.distance_m > 0 ELSE moving
             speed_ratio ==
                 IF ~freeflow_pos THEN 100
                 ELSE IF ~moving THEN 0
                 ELSE IF resp.duration > 0
                      THEN (resp.duration * 100) \div resp.duration_traffic
                      ELSE 100
         IN  {TrafficSample(speed_ratio, "here")}
    ELSE _get_mock_traffic(hour)

_get_tomtom_traffic(resp, hour) ==
    IF resp.status = "ok"
    THEN LET moving == resp.duration_traffic > 0 /\ resp.distance_m > 0
             freeflow_pos ==
                 IF resp.duration > 0 THEN resp.distance_m > 0 ELSE moving
             speed_ratio ==
                 IF ~freeflow_pos THEN 100
                 ELSE IF ~moving THEN 0
                 ELSE IF resp.duration > 0
                      THEN (resp.duration * 100) \div resp.duration_traffic
                      ELSE 100
         IN  {TrafficSample(speed_ratio, "tomtom")}
    ELSE _get_mock_traffic(hour)

\* lines 66-74 of get_traffic_on_route: the fetch by provider
FetchTraffic(provider, resp, hour) ==
    IF provider = "google" THEN _get_google_traffic(resp, hour)
    ELSE IF provider = "here" THEN _get_here_traffic(resp, hour)
    ELSE IF provider = "tomtom" THEN _get_tomtom_traffic(resp, hour)
    ELSE _get_mock_traffic(hour)

\* traffic_data.get('speed_ratio', 1.0)
SpeedRatioOf(traffic) == IF traffic.has_ratio THEN traffic.speed_ratio ELSE 100

\* the reason text: the level, and int(speed_ratio * 100) unless free-flowing
TrafficReason(traffic) ==
    LET congestion == traffic.congestion_level
    IN  IF congestion = "heavy"
        THEN <<W("Heavy"), W("traffic"), W("congestion"), N(SpeedRatioOf(traffic)), W("%")>>
        ELSE IF congestion = "moderate"
        THEN <<W("Moderate"), W("traffic"), W("delays"), N(SpeedRatioOf(traffic)), W("%")>>
        ELSE IF congestion = "light"
        THEN <<W("Light"), W("traffic"), W("conditions"), N(SpeedRatioOf(traffic)), W("%")>>
        ELSE <<W("Free-flowing"), W("traffic"), W("conditions")>>

\* the speed ratio used as the multiplier, without the floor
TrafficMultiplierNoFloor(traffic) ==
    [multiplier |-> SpeedRatioOf(traffic), reason |-> TrafficReason(traffic)]

calculate_traffic_multiplier(traffic) ==
    [multiplier |-> Max(SpeedRatioOf(traffic), 40), reason |-> TrafficReason(traffic)]

\* the threshold taken inclusively
IsCongestedInclusive(traffic) == SpeedRatioOf(traffic) <= 40

is_congested(traffic) == SpeedRatioOf(traffic) < 40

----------------------------------------------------------------------------
(* app.py: REASON_CODES and score_delay_reason *)

REASON_CODES == {"on_time", "traffic_congestion", "weather_impact", "facility_dwell",
                 "vehicle_issue", "driver_hos_risk", "road_incident"}

NoTs == 0 - 1          \* a timestamp column that is NULL / None
NoKey == 0 - 1         \* a dict key that is absent

\* scores[key] = value on a dict that keeps insertion order
ScoresPut(scores, key, value) ==
    IF \E i \in 1..Len(scores) : scores[i].reason = key
    THEN [i \in 1..Len(scores) |->
             IF scores[i].reason = key THEN [reason |-> key, score |-> value]
             ELSE scores[i]]
    ELSE Append(scores, [reason |-> key, score |-> value])

\* lines 213-221
TrafficCandidate(scores, traffic_d) ==
    IF traffic_d.present /\ is_congested(traffic_d)
    THEN ScoresPut(scores, "traffic_congestion", Score(90))
    ELSE IF traffic_d.present /\ traffic_d.congestion_level \in {"moderate", "heavy"}
    THEN ScoresPut(scores, "traffic_congestion", Score(75))
    ELSE scores

\* the heavy-rain threshold taken inclusively
RainCandidateInclusive(scores, weather_impact) ==
    IF weather_impact # NoText
       /\ ContainsWord(weather_impact, RainWords)
       /\ HasMagnitude(weather_impact, "mm/h")
    THEN LET precip == FirstMagnitude(weather_impact, "mm/h")
         IN  IF precip >= 100 THEN ScoresPut(scores, "weather_impact", Score(85))
             ELSE IF precip > 50 THEN ScoresPut(scores, "weather_impact", Score(65))
             ELSE scores
    ELSE scores

\* lines 224-231; weather_impact is a text or None
RainCandidate(scores, weather_impact) ==
    IF weather_impact # NoText
       /\ ContainsWord(weather_impact, RainWords)
       /\ HasMagnitude(weather_impact, "mm/h")
    THEN LET precip == FirstMagnitude(weather_impact, "mm/h")
         IN  IF precip > 100 THEN ScoresPut(scores, "weather_impact", Score(85))
             ELSE IF precip > 50 THEN ScoresPut(scores, "weather_impact", Score(65))
             ELSE scores
    ELSE scores

\* lines 233-238
WindCandidate(scores, weather_impact) ==
    IF weather_impact # NoText
       /\ ContainsWord(weather_impact, WindWords)
       /\ HasMagnitude(weather_impact, "km/h")
    THEN LET wind == FirstMagnitude(weather_impact, "km/h")
         IN  IF wind > 400 THEN ScoresPut(scores, "weather_impact", Score(80))
             ELSE scores
    ELSE scores

\* the dwell score without its cap
DwellScoreUncapped(actual_dwell, planned_service) ==
    Score(60) + ((actual_dwell - planned_service * TicksPerMin) * 60) \div TicksPerMin

\* lines 254-256 for one stop: the dwell score, in 1/3600
DwellScore(actual_dwell, planned_service) ==
    Min(Score(90),
        Score(60) + ((actual_dwell - planned_service * TicksPerMin) * 60) \div TicksPerMin)

\* line 254, planned_service * 1.2 in binary64: 1.2 is stored as
\* 1.1999999999999999556 and the product is rounded to the nearest double; for
\* these planned minutes (of 1..30) it is the double below the exact product,
\* which is what a dwell of exactly planned * 1.2 minutes divides to
ProductRoundsBelow == {3, 6, 9, 12, 18, 23, 24}

\* line 254: actual_dwell_min > planned_service * 1.2, both sides doubles
ExceedsThreshold(actual_dwell, planned_service) ==
    \/ actual_dwell * 10 > planned_service * 12 * TicksPerMin
    \/ /\ actual_dwell * 10 = planned_service * 12 * TicksPerMin
       /\ planned_service \in ProductRoundsBelow

\* the score taken from the first qualifying stop, later ones not overwriting it
DwellCandidateFirst(scores, stops) ==
    LET Planned(i) == IF stops[i].planned_service_min = NoKey THEN 30
                      ELSE stops[i].planned_service_min
        Dwell(i) == stops[i].actual_dep_ts - stops[i].actual_arr_ts
        qualifying == {i \in 1..Len(stops) :
                          /\ stops[i].completed /\ stops[i].actual_arr_ts # NoTs
                          /\ stops[i].actual_dep_ts # NoTs
                          /\ ExceedsThreshold(Dwell(i), Planned(i))}
    IN  IF qualifying = {} THEN scores
        ELSE LET i == CHOOSE k \in qualifying : \A m \in qualifying : k <= m
             IN  ScoresPut(scores, "facility_dwell", DwellScore(Dwell(i), Planned(i)))

\* lines 241-256: every qualifying completed stop overwrites the score
RECURSIVE DwellCandidate(_, _)
DwellCandidate(scores, stops) ==
    IF stops = <<>> THEN scores
    ELSE LET stop == Head(stops)
             planned_service == IF stop.planned_service_min = NoKey THEN 30
                                ELSE stop.planned_service_min
             actual_dwell == stop.actual_dep_ts - stop.actual_arr_ts
             next ==
                 IF stop.completed /\ stop.actual_arr_ts # NoTs /\ stop.actual_dep_ts # NoTs
                    /\ ExceedsThreshold(actual_dwell, planned_service)
                 THEN ScoresPut(scores, "facility_dwell",
                                DwellScore(actual_dwell, planned_service))
                 ELSE scores
         IN  DwellCandidate(next, Tail(stops))

\* the heuristic with the band above 30 minutes left out
LatenessHeuristicOneBand(scores, late_by_min) ==
    IF late_by_min > 15 /\ scores = <<>>
    THEN ScoresPut(scores, "traffic_congestion", Score(60))
    ELSE scores

\* the bands written as closed ranges, the upper one ending at 40 minutes
LatenessHeuristicRanges(scores, late_by_min) ==
    IF late_by_min > 30 /\ late_by_min <= 40 /\ scores = <<>>
    THEN ScoresPut(scores, "traffic_congestion", Score(70))
    ELSE IF late_by_min > 15 /\ late_by_min <= 30 /\ scores = <<>>
    THEN ScoresPut(scores, "traffic_congestion", Score(60))
    ELSE scores

\* lines 260-263
LatenessHeuristic(scores, late_by_min) ==
    IF late_by_min > 30 /\ scores = <<>>
    THEN ScoresPut(scores, "traffic_congestion", Score(70))
    ELSE IF late_by_min > 15 /\ scores = <<>>
    THEN ScoresPut(scores, "traffic_congestion", Score(60))
    ELSE scores

\* the last of the highest scoring keys instead of the first
SelectLastMax(scores) ==
    CHOOSE i \in 1..Len(scores) :
        /\ \A j \in 1..Len(scores) : scores[j].score <= scores[i].score
        /\ \A j \in (i + 1)..Len(scores) : scores[j].score < scores[i].score

\* line 270: max(scores, key=scores.get) returns the first key of highest score
SelectMax(scores) ==
    CHOOSE i \in 1..Len(scores) :
        /\ \A j \in 1..Len(scores) : scores[j].score <= scores[i].score
        /\ \A j \in 1..(i - 1) : scores[j].score < scores[i].score

\* lines 274-286: which template the explanation is built from
Explanation(reason_code, traffic_d) ==
    IF reason_code = "traffic_congestion"
    THEN (IF traffic_d.present THEN "traffic_sample" ELSE "traffic_plain")
    ELSE IF reason_code = "weather_impact" THEN "weather"
    ELSE IF reason_code = "facility_dwell" THEN "dwell"
    ELSE "investigating"

\* lines 211-263: the scores dict before the selection
CandidateScores(stops, late_by_min, weather_impact, traffic_d) ==
    LatenessHeuristic(
        DwellCandidate(
            WindCandidate(
                RainCandidate(TrafficCandidate(<<>>, traffic_d), weather_impact),
                weather_impact),
            stops),
        late_by_min)

\* lines 265-288: the selection among the candidates
ScoreLate(stops, late_by_min, weather_impact, traffic_d) ==
    LET scores == CandidateScores(stops, late_by_min, weather_impact, traffic_d)
    IN  IF scores = <<>>
        THEN [reason_code |-> "traffic_congestion", confidence |-> Score(50),
              explanation |-> "moderate_delays"]
        ELSE LET best == scores[SelectMax(scores)]
             IN  [reason_code |-> best.reason, confidence |-> best.score,
                  explanation |-> Explanation(best.reason, traffic_d)]

\* the noise threshold left out
ScoreNoThreshold(stops, late_by_min, weather_impact, traffic_d) ==
    ScoreLate(stops, late_by_min, weather_impact, traffic_d)

score_delay_reason(stops, late_by_min, weather_impact, traffic_d) ==
    IF late_by_min <= 5
    THEN [reason_code |-> "on_time", confidence |-> Score(100),
          explanation |-> "on_schedule"]
    ELSE ScoreLate(stops, late_by_min, weather_impact, traffic_d)

----------------------------------------------------------------------------
(* valhalla_client.py: calculate_eta_with_traffic; app.py: the leg planner *)

KmPerCell == 5 * 7      \* positions lie on one meridian, KmPerCell km apart
Minutes(m) == m * TicksPerMin

\* Haversine distance of two points of one meridian: R * |dlat|
calculate_distance(lat1, lat2) == KmPerCell * Abs(lat2 - lat1)

FailedRoute == [success |-> FALSE, distance_km |-> 0, duration |-> 0]

\* lines 372-395; route is what self.route() answered, duration in ticks
calculate_eta_with_traffic(route, traffic_multiplier, weather_multiplier) ==
    IF ~route.success THEN route
    ELSE LET effective_multiplier == Min(traffic_multiplier, weather_multiplier)
         IN  IF effective_multiplier < 100
             THEN [route EXCEPT !.duration = (route.duration * 100) \div effective_multiplier]
             ELSE route

\* the fallback taken from the vehicle position instead of the cursor
LegFromVehicle(route_result, current_lat, stop) ==
    IF ~route_result.success
    THEN [distance_km |-> calculate_distance(latest_pos.lat, stop.lat),
          travel_time |-> (calculate_distance(latest_pos.lat, stop.lat) * Minutes(60)) \div 70]
    ELSE [distance_km |-> route_result.distance_km,
          travel_time |-> route_result.duration]

\* lines 147-153: distance and travel time of the leg
LegTravel(route_result, current_lat, stop) ==
    IF ~route_result.success
    THEN [distance_km |-> calculate_distance(current_lat, stop.lat),
          travel_time |-> (calculate_distance(current_lat, stop.lat) * Minutes(60)) \div 70]
    ELSE [distance_km |-> route_result.distance_km,
          travel_time |-> route_result.duration]

\* stop.get('planned_service_min', 0), in ticks
ServiceTime(stop) ==
    IF stop.planned_service_min = NoKey THEN 0 ELSE Minutes(stop.planned_service_min)

\* the service time left out of the total
TotalWithoutService(cumulative, travel_time, stop) == cumulative + travel_time

\* line 157
TotalTime(cumulative, travel_time, stop) == cumulative + travel_time + ServiceTime(stop)

\* the lateness rounded to the nearest minute instead of truncated
LatenessRounded(eta_ts, planned_arr) ==
    IF planned_arr # NoTs /\ eta_ts > planned_arr
    THEN [on_time |-> FALSE,
          late_by_min |-> (eta_ts - planned_arr + TicksPerMin \div 2) \div TicksPerMin]
    ELSE [on_time |-> TRUE, late_by_min |-> 0]

\* lines 163-172: int() truncates the minutes
Lateness(eta_ts, planned_arr) ==
    IF planned_arr # NoTs /\ eta_ts > planned_arr
    THEN [on_time |-> FALSE, late_by_min |-> (eta_ts - planned_arr) \div TicksPerMin]
    ELSE [on_time |-> TRUE, late_by_min |-> 0]

\* a completed stop reported with the default confidence of a computed ETA
CompletedEtaDefault(stop) ==
    [stop_id |-> stop.id, eta_ts |-> stop.actual_arr_ts, on_time |-> TRUE,
     late_by_min |-> 0, reason_code |-> "on_time", confidence |-> Score(90),
     distance_km |-> 0, weather_impact |-> NoText]

\* lines 117-125
CompletedEta(stop) ==
    [stop_id |-> stop.id, eta_ts |-> stop.actual_arr_ts, on_time |-> TRUE,
     late_by_min |-> 0, reason_code |-> "on_time", confidence |-> Score(100),
     distance_km |-> 0, weather_impact |-> NoText]

\* the arrival counted from the clock with the stop's own leg only
PendingEtaOwnLeg(stop, leg, cumulative, clock, weather) ==
    LET eta_ts == clock + TotalTime(0, leg.travel_time, stop)
        verdict == Lateness(eta_ts, stop.planned_arr_ts)
    IN  [stop_id |-> stop.id, eta_ts |-> eta_ts, on_time |-> verdict.on_time,
         late_by_min |-> verdict.late_by_min, reason_code |-> "on_time",
         confidence |-> Score(90), distance_km |-> leg.distance_km,
         weather_impact |-> IF weather.multiplier < 100 THEN weather.reason ELSE NoText]

\* lines 155-183: the result of a pending stop
PendingEta(stop, leg, cumulative, clock, weather) ==
    LET eta_ts == clock + TotalTime(cumulative, leg.travel_time, stop)
        verdict == Lateness(eta_ts, stop.planned_arr_ts)
    IN  [stop_id |-> stop.id, eta_ts |-> eta_ts, on_time |-> verdict.on_time,
         late_by_min |-> verdict.late_by_min, reason_code |-> "on_time",
         confidence |-> Score(90), distance_km |-> leg.distance_km,
         weather_impact |-> IF weather.multiplier < 100 THEN weather.reason ELSE NoText]

----------------------------------------------------------------------------
(* The provider cache of TrafficAPI.get_traffic_on_route *)

TrafficWindow == Minutes(5)          \* cache_duration, traffic_client.py line 27

\* f"{lat:.3f},{lon:.3f}_{lat:.3f},{lon:.3f}" of the first and last waypoint
CacheKey(origin, dest) == <<origin, dest>>

\* lines 61-64: the cached sample, when there is a fresh one
CacheHit(cache, key, clock) ==
    key \in DOMAIN cache /\ clock - cache[key].time < TrafficWindow

\* line 77
CacheInsert(cache, key, data, clock) ==
    [k \in DOMAIN cache \cup {key} |->
        IF k = key THEN [data |-> data, time |-> clock] ELSE cache[k]]

----------------------------------------------------------------------------
(* Inputs of a recomputation pass *)

MaxStops == 2            \* stops of the shipment
NumWeatherSamples == 3   \* num_samples=3, app.py line 132

T0 == Minutes(1000)      \* the clock when the position update arrives
LegDelays == {0, TicksPerMin \div 2}   \* time the provider calls of a leg take

Sample(precip, wind, alerts) ==
    [precipitation_mm_h |-> precip, wind_speed_kph |-> wind, alerts |-> alerts]

PassWeather == {Sample(0, 1000, <<>>), Sample(600, 1000, <<>>)}

Resp(status, distance_m, duration, duration_traffic) ==
    [status |-> status, distance_m |-> distance_m, duration |-> duration,
     duration_traffic |-> duration_traffic]

\* live answers with speed ratios 0.35 and 1.0
PassTraffic ==
    UNION {FetchTraffic("google", r, 12) :
              r \in {Resp("ok", 10000, 700, 2000), Resp("ok", 10000, 600, 600)}}

\* what self.route() answers: a failure, or 40 km in 20 minutes
RouteOutcomes ==
    {FailedRoute, [success |-> TRUE, distance_km |-> 40, duration |-> Minutes(20)]}

PlannedArr(i) == T0 + Minutes(33 * i)
ArrivedAt(i) == T0 - Minutes(300) + Minutes(60 * i)

StopVariants(i) ==
    LET base == [id |-> 10 + i, lat |-> i, planned_arr_ts |-> PlannedArr(i),
                 planned_service_min |-> 10, completed |-> FALSE,
                 actual_arr_ts |-> NoTs, actual_dep_ts |-> NoTs]
    IN  { base,
          [base EXCEPT !.planned_arr_ts = NoTs],
          [base EXCEPT !.completed = TRUE],
          [base EXCEPT !.completed = TRUE, !.actual_arr_ts = ArrivedAt(i),
                       !.actual_dep_ts = ArrivedAt(i) + Minutes(10)],
          [base EXCEPT !.completed = TRUE, !.actual_arr_ts = ArrivedAt(i),
                       !.actual_dep_ts = ArrivedAt(i) + Minutes(40)] }

StopLists == {sl \in [1..MaxStops -> UNION {StopVariants(i) : i \in 1..MaxStops}] :
                 \A i \in 1..MaxStops : sl[i] \in StopVariants(i)}

\* the last stop that is not completed instead of the first
LastIncomplete(stops) ==
    IF \E i \in 1..Len(stops) : ~stops[i].completed
    THEN CHOOSE i \in 1..Len(stops) :
             ~stops[i].completed /\ \A j \in (i + 1)..Len(stops) : stops[j].completed
    ELSE 0

\* next((s for s in stops if not s.get('completed')), None): its index, 0 for None
NextIncomplete(stops) ==
    IF \E i \in 1..Len(stops) : ~stops[i].completed
    THEN CHOOSE i \in 1..Len(stops) :
             ~stops[i].completed /\ \A j \in 1..(i - 1) : stops[j].completed
    ELSE 0

EmptyCache == [k \in {} |-> 0]

\* the cache as earlier passes may have left it for the first leg of this one
InitialCaches(lat, stops) ==
    IF NextIncomplete(stops) = 0 THEN {EmptyCache}
    ELSE {EmptyCache} \cup
         {CacheInsert(EmptyCache, CacheKey(lat, stops[NextIncomplete(stops)].lat),
                      TrafficSample(35, "google"), T0 - Minutes(age)) : age \in {1, 6}}

FinOff == [op |-> "none"]
FoutOff == [kind |-> "none"]

Init ==
    /\ pc = "request"
    /\ shipment \in [id : {7}, ref : {"PO-98765", "PO-11111"}, vehicle_id : {1},
                     stops : StopLists]
    /\ fin \in [op : {"positions"}, vehicle_id : {1, 2}, lat : {0, 1}]
    /\ fout = FoutOff
    /\ latest_pos = [lat |-> 0]
    /\ idx = 0
    /\ cursor = 0
    /\ cumulative_time = 0
    /\ etas = <<>>
    /\ legs = <<>>
    /\ now = T0
    /\ traffic_cache \in InitialCaches(fin.lat, shipment.stops)
    /\ weather_cache = EmptyCache
    /\ traffic_data = NoTraffic
    /\ store = <<>>
    /\ response = "none"

----------------------------------------------------------------------------
(* ingest_positions, step by step *)

\* the accumulated time kept across requests instead of starting at 0
IngestPositionsKeepsTotal ==
    /\ pc = "request"
    /\ latest_pos' = [lat |-> fin.lat]
    /\ IF shipment.ref = "PO-98765" /\ shipment.vehicle_id = fin.vehicle_id
       THEN /\ pc' = "compute"
            /\ idx' = 1
            /\ cursor' = fin.lat
            /\ etas' = <<>>
            /\ response' = response
            /\ UNCHANGED cumulative_time
       ELSE /\ pc' = "done"
            /\ response' = "ok"
            /\ UNCHANGED <<idx, cursor, cumulative_time, etas>>
    /\ UNCHANGED <<fin, weather_cache, fout, shipment, legs, now, traffic_cache, traffic_data, store>>

\* lines 395-426: the positions are stored, the shipment looked up
IngestPositions ==
    /\ pc = "request"
    /\ latest_pos' = [lat |-> fin.lat]
    /\ IF shipment.ref = "PO-98765" /\ shipment.vehicle_id = fin.vehicle_id
       THEN /\ pc' = "compute"
            /\ idx' = 1
            /\ cursor' = fin.lat
            /\ cumulative_time' = 0
            /\ etas' = <<>>
            /\ response' = response
       ELSE /\ pc' = "done"
            /\ response' = "ok"
            /\ UNCHANGED <<idx, cursor, cumulative_time, etas>>
    /\ UNCHANGED <<fin, weather_cache, fout, shipment, legs, now, traffic_cache, traffic_data, store>>

\* lines 115-126: one iteration of the loop over a completed stop
ComputeCompleted ==
    /\ pc = "compute"
    /\ idx <= Len(shipment.stops)
    /\ shipment.stops[idx].completed
    /\ etas' = Append(etas, CompletedEta(shipment.stops[idx]))
    /\ idx' = idx + 1
    /\ UNCHANGED <<fin, weather_cache, fout, pc, shipment, latest_pos, cursor, cumulative_time, legs,
                   now, traffic_cache, traffic_data, store, response>>

\* lines 128-188: one iteration of the loop over a pending stop
ComputePending ==
    /\ pc = "compute"
    /\ idx <= Len(shipment.stops)
    /\ ~shipment.stops[idx].completed
    /\ LET stop == shipment.stops[idx]
           key == CacheKey(cursor, stop.lat)
       IN  \E weather_samples \in [1..NumWeatherSamples -> PassWeather],
              route \in RouteOutcomes, delay \in LegDelays :
           \E traffic \in (IF CacheHit(traffic_cache, key, now)
                           THEN {traffic_cache[key].data} ELSE PassTraffic) :
              LET weather == get_worst_weather_condition(weather_samples)
                  tm == calculate_traffic_multiplier(traffic)
                  route_result == calculate_eta_with_traffic(route, tm.multiplier,
                                                             weather.multiplier)
                  leg == LegTravel(route_result, cursor, stop)
                  clock == now + delay
              IN  /\ etas' = Append(etas, PendingEta(stop, leg, cumulative_time,
                                                     clock, weather))
                  /\ cumulative_time' = TotalTime(cumulative_time, leg.travel_time, stop)
                  /\ cursor' = stop.lat
                  /\ legs' = Append(legs,
                         [stop_id |-> stop.id, origin |-> cursor, route |-> route,
                          weather_multiplier |-> weather.multiplier,
                          weather_reason |-> weather.reason,
                          traffic |-> traffic, traffic_multiplier |-> tm.multiplier,
                          travel_time |-> leg.travel_time, clock |-> clock])
                  /\ traffic_cache' = IF CacheHit(traffic_cache, key, now)
                                      THEN traffic_cache
                                      ELSE CacheInsert(traffic_cache, key, traffic, now)
                  /\ now' = clock
    /\ idx' = idx + 1
    /\ UNCHANGED <<fin, weather_cache, fout, pc, shipment, latest_pos, traffic_data, store, response>>

\* lines 428-434: the traffic sample handed to the classifier
SampleScoringTraffic ==
    /\ pc = "compute"
    /\ idx > Len(shipment.stops)
    /\ LET n == NextIncomplete(shipment.stops)
       IN  IF n = 0
           THEN /\ traffic_data' = NoTraffic
                /\ traffic_cache' = traffic_cache
           ELSE LET key == CacheKey(latest_pos.lat, shipment.stops[n].lat)
                IN  \E traffic \in (IF CacheHit(traffic_cache, key, now)
                                    THEN {traffic_cache[key].data} ELSE PassTraffic) :
                       /\ traffic_data' = traffic
                       /\ traffic_cache' = IF CacheHit(traffic_cache, key, now)
                                           THEN traffic_cache
                                           ELSE CacheInsert(traffic_cache, key, traffic, now)
    /\ pc' = "store"
    /\ idx' = 1
    /\ UNCHANGED <<fin, weather_cache, fout, shipment, latest_pos, cursor, cumulative_time, etas, legs,
                   now, store, response>>

\* lines 443-446 and db.insert_eta: the row written for one computed ETA
EtaRow(eta, clock) ==
    LET scored == score_delay_reason(shipment.stops, eta.late_by_min,
                                     eta.weather_impact, traffic_data)
    IN  [shipment_id |-> shipment.id, stop_id |-> eta.stop_id, ts |-> clock,
         eta_ts |-> eta.eta_ts, on_time |-> eta.on_time,
         late_by_min |-> eta.late_by_min, reason_code |-> scored.reason_code,
         confidence |-> scored.confidence, explanation |-> scored.explanation]

\* lines 437-458: one iteration of the loop that scores and stores
StoreEta ==
    /\ pc = "store"
    /\ idx <= Len(etas)
    /\ store' = IF etas[idx].eta_ts = NoTs THEN store
                ELSE Append(store, EtaRow(etas[idx], now))
    /\ idx' = idx + 1
    /\ UNCHANGED <<fin, weather_cache, fout, pc, shipment, latest_pos, cursor, cumulative_time, etas,
                   legs, now, traffic_cache, traffic_data, response>>

\* lines 460-475
Respond ==
    /\ pc = "store"
    /\ idx > Len(etas)
    /\ pc' = "done"
    /\ response' = "ok"
    /\ UNCHANGED <<fin, weather_cache, fout, shipment, latest_pos, idx, cursor, cumulative_time, etas,
                   legs, now, traffic_cache, traffic_data, store>>

Next ==
    \/ IngestPositions
    \/ ComputeCompleted
    \/ ComputePending
    \/ SampleScoringTraffic
    \/ StoreEta
    \/ Respond

Spec == Init /\ [][Next]_vars

----------------------------------------------------------------------------
(* The same request handled a second time: same stops, same position, the  *)
(* providers and the clock answering as they did the first time. fout keeps *)
(* what the first pass produced.                                            *)

\* the second POST of the same payload, the clock read as at the first
InvokeAgain ==
    /\ pc = "done"
    /\ fout.kind = "none"
    /\ fout' = [kind |-> "first", etas |-> etas, legs |-> legs, rows |-> store]
    /\ pc' = "request"
    /\ legs' = <<>>
    /\ now' = T0
    /\ response' = "none"
    /\ UNCHANGED <<fin, weather_cache, shipment, latest_pos, idx, cursor, cumulative_time, etas,
                   traffic_cache, traffic_data, store>>

\* the samples, the routing answers and the clock of the legs computed so far in
\* the second pass are those of the first pass
SameSamples ==
    fout.kind = "first" =>
       \A k \in 1..Len(legs) :
          /\ k <= Len(fout.legs)
          /\ legs[k].route = fout.legs[k].route
          /\ legs[k].weather_multiplier = fout.legs[k].weather_multiplier
          /\ legs[k].weather_reason = fout.legs[k].weather_reason
          /\ legs[k].traffic = fout.legs[k].traffic
          /\ legs[k].clock = fout.legs[k].clock

ComputePendingSameSamples == ComputePending /\ SameSamples'

NextTwice ==
    \/ IngestPositions
    \/ ComputeCompleted
    \/ ComputePendingSameSamples
    \/ SampleScoringTraffic
    \/ StoreEta
    \/ Respond
    \/ InvokeAgain

\* the requests handled twice: the vehicle at cell 0, every pending stop with a
\* planned arrival, every completed stop with a recorded dwell of 40 minutes
InitTwice ==
    /\ Init
    /\ fin.lat = 0
    /\ \A i \in 1..Len(shipment.stops) :
          IF shipment.stops[i].completed
          THEN shipment.stops[i].actual_dep_ts = ArrivedAt(i) + Minutes(40)
          ELSE shipment.stops[i].planned_arr_ts # NoTs

SpecTwice == InitTwice /\ [][NextTwice]_vars

----------------------------------------------------------------------------
(* One position update after the other for the vehicle of the shipment: the  *)
(* passes append to the etas table, get_latest_eta reads it.  fout keeps the  *)
(* number of the pass and the table as it was when the pass began.            *)

MaxPasses == 2           \* position updates in a row
UpdateInterval == Minutes(6)   \* time between two position updates

PassNo == IF fout.kind = "passes" THEN fout.n ELSE 1
PassStart == IF fout.kind = "passes" THEN fout.before ELSE <<>>

\* the oldest row instead of the newest
get_latest_eta_ascending(rows, shipment_id, stop_id) ==
    LET mine == {k \in 1..Len(rows) :
                    rows[k].shipment_id = shipment_id /\ rows[k].stop_id = stop_id}
    IN  {rows[k] : k \in {m \in mine : \A j \in mine : rows[j].ts >= rows[m].ts}}

\* db.py lines 245-251: ORDER BY ts DESC LIMIT 1; the rows the query can return
\* (any of those with the greatest ts), none when the stop has no row
get_latest_eta(rows, shipment_id, stop_id) ==
    LET mine == {k \in 1..Len(rows) :
                    rows[k].shipment_id = shipment_id /\ rows[k].stop_id = stop_id}
    IN  {rows[k] : k \in {m \in mine : \A j \in mine : rows[j].ts <= rows[m].ts}}

InitPasses ==
    /\ InitTwice
    /\ shipment.ref = "PO-98765"
    /\ fin.vehicle_id = shipment.vehicle_id
    /\ traffic_cache = EmptyCache

\* the leg of a pending stop, routed, in clear weather, the provider calls
\* taking no time
ComputePendingRouted ==
    /\ ComputePending
    /\ legs'[Len(legs')].weather_multiplier = 100
    /\ legs'[Len(legs')].route.success
    /\ now' = now

\* the next POST /v1/positions of the vehicle, UpdateInterval later
NextUpdate ==
    /\ pc = "done"
    /\ PassNo < MaxPasses
    /\ fout' = [kind |-> "passes", n |-> PassNo + 1, before |-> store]
    /\ pc' = "request"
    /\ legs' = <<>>
    /\ now' = now + UpdateInterval
    /\ response' = "none"
    /\ UNCHANGED <<fin, weather_cache, shipment, latest_pos, idx, cursor, cumulative_time,
                   etas, traffic_cache, traffic_data, store>>

NextPasses ==
    \/ IngestPositions
    \/ ComputeCompleted
    \/ ComputePendingRouted
    \/ SampleScoringTraffic
    \/ StoreEta
    \/ Respond
    \/ NextUpdate

SpecPasses == InitPasses /\ [][NextPasses]_vars

----------------------------------------------------------------------------
(* The handler on stop lists as the store can hand them over: sequence       *)
(* numbers in any order and repeated, and a stop whose 'lat' is missing.      *)

\* a stop row with its seq column; lat = NoKey stands for the missing field
SeqStop(i, seq, has_lat, completed) ==
    [id |-> 10 + i, seq |-> seq, lat |-> IF has_lat THEN i ELSE NoKey,
     planned_arr_ts |-> PlannedArr(i), planned_service_min |-> 10,
     completed |-> completed,
     actual_arr_ts |-> IF completed THEN ArrivedAt(i) ELSE NoTs,
     actual_dep_ts |-> IF completed THEN ArrivedAt(i) + Minutes(10) ELSE NoTs]

\* every assignment of sequence numbers, at most one stop without 'lat'
SeqStopLists ==
    {[i \in 1..MaxStops |-> SeqStop(i, seqs[i], i # missing, done[i])] :
        seqs \in [1..MaxStops -> 1..MaxStops], missing \in 0..MaxStops,
        done \in [1..MaxStops -> BOOLEAN]}

\* the request of the vehicle at cell 0 for a shipment with such a stop list
InitSeqStops ==
    /\ pc = "request"
    /\ shipment \in [id : {7}, ref : {"PO-98765"}, vehicle_id : {1}, stops : SeqStopLists]
    /\ fin = [op |-> "positions", vehicle_id |-> 1, lat |-> 0]
    /\ fout = FoutOff
    /\ latest_pos = [lat |-> 0]
    /\ idx = 0
    /\ cursor = 0
    /\ cumulative_time = 0
    /\ etas = <<>>
    /\ legs = <<>>
    /\ now = T0
    /\ traffic_cache = EmptyCache
    /\ weather_cache = EmptyCache
    /\ traffic_data = NoTraffic
    /\ store = <<>>
    /\ response = "none"

\* the leg of a pending stop that has its 'lat', in clear weather and with the
\* provider calls taking no time
ComputePendingPresent ==
    /\ ComputePending
    /\ shipment.stops[idx].lat # NoKey
    /\ legs'[Len(legs')].weather_multiplier = 100
    /\ now' = now

\* app.py line 129: stop['lat'] of a stop without it raises KeyError, which
\* the handler answers with an error (lines 477-478)
ComputeMissingField ==
    /\ pc = "compute"
    /\ idx <= Len(shipment.stops)
    /\ ~shipment.stops[idx].completed
    /\ shipment.stops[idx].lat = NoKey
    /\ pc' = "done"
    /\ response' = "error"
    /\ UNCHANGED <<fin, fout, shipment, latest_pos, idx, cursor, cumulative_time, etas,
                   legs, now, traffic_cache, weather_cache, traffic_data, store>>

NextMalformed ==
    \/ IngestPositions
    \/ ComputeCompleted
    \/ ComputePendingPresent
    \/ ComputeMissingField
    \/ SampleScoringTraffic
    \/ StoreEta
    \/ Respond

SpecMalformed == InitSeqStops /\ [][NextMalformed]_vars

----------------------------------------------------------------------------
(* The handler with a database that can refuse a statement: insert_positions  *)
(* and insert_eta roll their own statement back and raise (db.py lines        *)
(* 186-188 and 237-239), the handler answers every exception with             *)
(* success=false (app.py lines 477-478).                                      *)

InitFail ==
    /\ Init
    /\ shipment.ref = "PO-98765"
    /\ fin.vehicle_id = shipment.vehicle_id
    /\ traffic_cache = EmptyCache

\* db.py lines 186-188 under app.py line 411: the batch is rolled back
InsertPositionsFails ==
    /\ pc = "request"
    /\ pc' = "done"
    /\ response' = "error"
    /\ UNCHANGED <<fin, fout, shipment, latest_pos, idx, cursor, cumulative_time, etas,
                   legs, now, traffic_cache, weather_cache, traffic_data, store>>

\* db.py lines 237-239 under app.py line 449: the row is rolled back, the rows
\* committed by the earlier iterations (db.py line 235) stay
InsertEtaFails ==
    /\ pc = "store"
    /\ idx <= Len(etas)
    /\ etas[idx].eta_ts # NoTs
    /\ pc' = "done"
    /\ response' = "error"
    /\ UNCHANGED <<fin, fout, shipment, latest_pos, idx, cursor, cumulative_time, etas,
                   legs, now, traffic_cache, weather_cache, traffic_data, store>>

NextFail ==
    \/ InsertPositionsFails
    \/ IngestPositions
    \/ ComputeCompleted
    \/ ComputePendingRouted
    \/ SampleScoringTraffic
    \/ StoreEta
    \/ InsertEtaFails
    \/ Respond

SpecFail == InitFail /\ [][NextFail]_vars

----------------------------------------------------------------------------
(* The multiplier calculators and the traffic samplers on their own *)

PassOff ==
    /\ pc = "off"
    /\ shipment = [id |-> 0, ref |-> "", vehicle_id |-> 0, stops |-> <<>>]
    /\ latest_pos = [lat |-> 0]
    /\ idx = 0
    /\ cursor = 0
    /\ cumulative_time = 0
    /\ etas = <<>>
    /\ legs = <<>>
    /\ now = T0
    /\ traffic_cache = EmptyCache
    /\ weather_cache = EmptyCache
    /\ traffic_data = NoTraffic
    /\ store = <<>>
    /\ response = "none"

MaxSamples == 3          \* longest list handed to get_worst_weather_condition

Alert(event) == [event |-> event]
FloodWarning == Alert(<<W("Flood"), W("Warning")>>)
WindAdvisory == Alert(<<W("Wind"), W("Advisory")>>)
RainAlert == Alert(<<W("Rain"), N(120), W("mm/h")>>)
AlertLists == {<<>>, <<FloodWarning>>, <<FloodWarning, WindAdvisory>>, <<RainAlert>>}

WeatherSamples ==
    {Sample(p, w, a) : p \in {0, 1, 500, 600, 1000, 1004, 1200},
                       w \in {1000, 3000, 3500, 4000, 4500}, a \in AlertLists}

WorstPool ==
    {Sample(0, 1000, <<>>), Sample(600, 1000, <<>>), Sample(1200, 1000, <<>>),
     Sample(0, 4500, <<>>), Sample(0, 1000, <<FloodWarning>>),
     Sample(1200, 1000, <<FloodWarning>>)}

SeqsUpTo(S, n) == UNION {[1..k -> S] : k \in 0..n}

Responses ==
    {Resp("error", 0, 0, 0), Resp("empty", 0, 0, 0)} \cup
    {Resp("ok", d, dn, dt) : d \in {0, 10000}, dn \in {0, 600},
                             dt \in {0, 500, 600, 1000, 2000}}

\* a traffic dict without the speed_ratio key
RatiolessTraffic ==
    [present |-> TRUE, has_ratio |-> FALSE, speed_ratio |-> 0,
     congestion_level |-> "moderate", source |-> "caller"]

MultInputs ==
    {[op |-> "weather", weather |-> w] : w \in WeatherSamples}
    \cup {[op |-> "worst", samples |-> ws] : ws \in SeqsUpTo(WorstPool, MaxSamples)}
    \cup {[op |-> "traffic", provider |-> p, resp |-> r, hour |-> h] :
             p \in {"google", "here", "tomtom", "mock"}, r \in Responses,
             h \in {3, 8, 12}}
    \cup {[op |-> "traffic_dict", traffic |-> t] :
             t \in {RatiolessTraffic} \cup {TrafficSample(r, "caller") : r \in {0, 39, 40, 100}}}

InitMult == PassOff /\ fout = FoutOff /\ fin \in MultInputs

CalcWeatherMultiplier ==
    /\ fin.op = "weather"
    /\ fout.kind = "none"
    /\ fout' = [kind |-> "multiplier",
                result |-> calculate_weather_multiplier(fin.weather)]
    /\ UNCHANGED <<fin, passVars>>

WorstWeatherCondition ==
    /\ fin.op = "worst"
    /\ fout.kind = "none"
    /\ fout' = [kind |-> "multiplier",
                result |-> get_worst_weather_condition(fin.samples)]
    /\ UNCHANGED <<fin, passVars>>

\* get_traffic_on_route on an empty cache: the provider is asked
GetTrafficOnRoute ==
    /\ fin.op = "traffic"
    /\ fout.kind = "none"
    /\ \E traffic \in FetchTraffic(fin.provider, fin.resp, fin.hour) :
          fout' = [kind |-> "sample", sample |-> traffic]
    /\ UNCHANGED <<fin, passVars>>

CalcTrafficMultiplier ==
    /\ \/ fin.op = "traffic" /\ fout.kind = "sample"
       \/ fin.op = "traffic_dict" /\ fout.kind = "none"
    /\ LET traffic == IF fin.op = "traffic" THEN fout.sample ELSE fin.traffic
       IN  fout' = [kind |-> "multiplier", sample |-> traffic,
                    result |-> calculate_traffic_multiplier(traffic)]
    /\ UNCHANGED <<fin, passVars>>

NextMult ==
    \/ CalcWeatherMultiplier
    \/ WorstWeatherCondition
    \/ GetTrafficOnRoute
    \/ CalcTrafficMultiplier

SpecMult == InitMult /\ [][NextMult]_vars

----------------------------------------------------------------------------
(* score_delay_reason on its own *)

MaxHistory == 2          \* longest stop list handed to score_delay_reason

\* a completed stop with a planned service in minutes and an actual dwell in
\* tenths of a minute, or in minutes
DweltTenths(planned_service, tenths) ==
    [id |-> 1, lat |-> 1, planned_arr_ts |-> NoTs,
     planned_service_min |-> planned_service, completed |-> TRUE,
     actual_arr_ts |-> T0, actual_dep_ts |-> T0 + (tenths * TicksPerMin) \div 10]
Dwelt(planned_service, dwell) == DweltTenths(planned_service, dwell * 10)

HistoryPool ==
    {Dwelt(30, 36), Dwelt(30, 40), Dwelt(30, 70), Dwelt(30, 39), Dwelt(10, 13),
     Dwelt(NoKey, 40), DweltTenths(12, 144),
     [Dwelt(30, 40) EXCEPT !.completed = FALSE, !.actual_arr_ts = NoTs,
                           !.actual_dep_ts = NoTs]}

\* the texts compute_eta_with_routing can hand over, and None
ImpactTexts ==
    {NoText} \cup
    {calculate_weather_multiplier(w).reason :
        w \in {Sample(1, 1000, <<>>), Sample(600, 1000, <<>>), Sample(1004, 1000, <<>>),
               Sample(1200, 1000, <<>>), Sample(0, 3500, <<>>), Sample(0, 4500, <<>>),
               Sample(1200, 1000, <<FloodWarning, WindAdvisory>>),
               Sample(0, 1000, <<RainAlert>>)}}

ScoreTraffic == {NoTraffic} \cup {TrafficSample(r, "caller") : r \in {35, 40, 60, 80, 100}}

LateValues == {0, 3, 5, 6, 15, 16, 30, 31}

ScoreInputs ==
    [op : {"score"}, stops : SeqsUpTo(HistoryPool, MaxHistory), late_by_min : LateValues,
     weather_impact : ImpactTexts, traffic : ScoreTraffic]

InitScore == PassOff /\ fout = FoutOff /\ fin \in ScoreInputs

ScoreDelayReason ==
    /\ fin.op = "score"
    /\ fout.kind = "none"
    /\ fout' = [kind |-> "scored",
                result |-> score_delay_reason(fin.stops, fin.late_by_min,
                                              fin.weather_impact, fin.traffic)]
    /\ UNCHANGED <<fin, passVars>>

NextScore == ScoreDelayReason

SpecScore == InitScore /\ [][NextScore]_vars

----------------------------------------------------------------------------
(* score_delay_reason called twice on the same evidence, the second time with *)
(* a larger lateness                                                          *)

MonoPool ==
    {Dwelt(30, 40), Dwelt(10, 13),
     [Dwelt(30, 40) EXCEPT !.completed = FALSE, !.actual_arr_ts = NoTs,
                           !.actual_dep_ts = NoTs]}

MonoTexts ==
    {NoText} \cup
    {calculate_weather_multiplier(w).reason :
        w \in {Sample(600, 1000, <<>>), Sample(1200, 1000, <<>>)}}

MonoTraffic == {NoTraffic} \cup {TrafficSample(r, "caller") : r \in {35, 60, 100}}

MonoLates == {3, 5, 6, 15, 16, 30, 31, 45}

MonoInputs ==
    [op : {"score"}, stops : SeqsUpTo(MonoPool, MaxHistory), late_by_min : MonoLates,
     weather_impact : MonoTexts, traffic : MonoTraffic]

InitMono == PassOff /\ fout = FoutOff /\ fin \in MonoInputs

ScoreLater ==
    /\ fin.op = "score"
    /\ fout.kind = "scored"
    /\ \E later \in MonoLates :
          /\ later > fin.late_by_min
          /\ fout' = [kind |-> "rescored", first |-> fout.result, late_by_min |-> later,
                      result |-> score_delay_reason(fin.stops, later,
                                                    fin.weather_impact, fin.traffic)]
    /\ UNCHANGED <<fin, passVars>>

NextMono ==
    \/ ScoreDelayReason
    \/ ScoreLater

SpecMono == InitMono /\ [][NextMono]_vars

----------------------------------------------------------------------------
(* The weather of one leg from its samples to the classifier:                 *)
(* get_worst_weather_condition, the weather_impact of the ETA dict (app.py     *)
(* line 182), score_delay_reason without traffic sample and dwell history      *)

LegWeatherPool ==
    WorstPool \cup {Sample(1200, 1000, <<RainAlert>>), Sample(0, 4500, <<WindAdvisory>>),
                   Sample(600, 1000, <<FloodWarning, WindAdvisory>>)}

LegLates == {3, 6, 20}

LegInputs ==
    {[op |-> "leg", samples |-> ws, late_by_min |-> late] :
        ws \in SeqsUpTo(LegWeatherPool, MaxSamples) \ {<<>>}, late \in LegLates}

InitLeg == PassOff /\ fout = FoutOff /\ fin \in LegInputs

\* app.py lines 132-133 and 182
WorstOfLeg ==
    /\ fin.op = "leg"
    /\ fout.kind = "none"
    /\ LET worst == get_worst_weather_condition(fin.samples)
       IN  fout' = [kind |-> "leg", multiplier |-> worst.multiplier,
                    weather_impact |-> IF worst.multiplier < 100 THEN worst.reason
                                       ELSE NoText]
    /\ UNCHANGED <<fin, passVars>>

\* app.py lines 442-446
ScoreLeg ==
    /\ fin.op = "leg"
    /\ fout.kind = "leg"
    /\ fout' = [kind |-> "leg_scored", multiplier |-> fout.multiplier,
                weather_impact |-> fout.weather_impact,
                result |-> score_delay_reason(<<>>, fin.late_by_min,
                                              fout.weather_impact, NoTraffic)]
    /\ UNCHANGED <<fin, passVars>>

NextLeg ==
    \/ WorstOfLeg
    \/ ScoreLeg

SpecLeg == InitLeg /\ [][NextLeg]_vars

----------------------------------------------------------------------------
(* valhalla_client.py: calculate_alternatives on its own *)

MaxAlternatives == 3     \* largest num_alternatives ("max 3")

\* what self.route() answers: a failure has neither distance nor duration nor
\* alternatives; Valhalla adds the alternatives it found to a success
RouteFailure == [success |-> FALSE, alternatives |-> <<>>]
RouteAnswer(distance_km, duration_min, alternatives) ==
    [success |-> TRUE, distance_km |-> distance_km, duration_min |-> duration_min,
     alternatives |-> alternatives]

RouteOption(id, route) ==
    [id |-> id, distance_km |-> route.distance_km, duration_min |-> route.duration_min]

\* s[:n] of Python, n >= 0
Take(s, n) == SubSeq(s, 1, Min(Len(s), n))

\* lines 288-313: the alternatives Valhalla returned, numbered from 2
ValhallaOptions(alts) ==
    [i \in 1..Len(alts) |-> [id |-> i + 1, distance_km |-> alts[i].distance_km,
                             duration_min |-> alts[i].duration_min]]

\* lines 316-330: the "auto" route, kept when it is more than 5% shorter; reading
\* route1['distance_km'] of a failed primary route raises KeyError
ShortestOption(options, route1, route2, num_alternatives) ==
    IF Len(options) < num_alternatives /\ route2.success
    THEN IF ~route1.success THEN [raised |-> TRUE, options |-> options]
         ELSE IF route2.distance_km * 100 < route1.distance_km * 95
         THEN [raised |-> FALSE, options |-> Append(options, RouteOption(2, route2))]
         ELSE [raised |-> FALSE, options |-> options]
    ELSE [raised |-> FALSE, options |-> options]

\* lines 333-352: the route without tolls; reading route1['duration_min'] of a
\* failed primary route raises KeyError
NoTollsOption(options, route1, route3, avoid_tolls, num_alternatives) ==
    IF Len(options) < num_alternatives /\ ~avoid_tolls /\ route3.success
    THEN IF ~route1.success THEN [raised |-> TRUE, options |-> options]
         ELSE [raised |-> FALSE, options |-> Append(options, RouteOption(3, route3))]
    ELSE [raised |-> FALSE, options |-> options]

\* lines 268-354; route1, route2, route3 are the answers of the routing calls
\* in the order the function makes them
calculate_alternatives(route1, route2, route3, avoid_tolls, num_alternatives) ==
    LET first == IF route1.success THEN <<RouteOption(1, route1)>> ELSE <<>>
    IN  IF route1.alternatives # <<>>
        THEN [raised |-> FALSE,
              options |-> Take(first \o ValhallaOptions(Take(route1.alternatives,
                                                              num_alternatives - 1)),
                               num_alternatives)]
        ELSE LET second == ShortestOption(first, route1, route2, num_alternatives)
                 third == NoTollsOption(second.options, route1, route3, avoid_tolls,
                                        num_alternatives)
             IN  IF second.raised THEN second
                 ELSE IF third.raised THEN third
                 ELSE [raised |-> FALSE, options |-> Take(third.options, num_alternatives)]

ValhallaAlternate == [distance_km |-> 110, duration_min |-> 55]

PrimaryAnswers ==
    {RouteFailure} \cup
    {RouteAnswer(100, 60, alts) :
        alts \in {<<>>, <<ValhallaAlternate>>, <<ValhallaAlternate, ValhallaAlternate>>}}

AltInputs ==
    [op : {"alternatives"}, route1 : PrimaryAnswers,
     route2 : {RouteFailure, RouteAnswer(90, 70, <<>>), RouteAnswer(99, 70, <<>>)},
     route3 : {RouteFailure, RouteAnswer(100, 65, <<>>)},
     avoid_tolls : BOOLEAN, num_alternatives : 1..MaxAlternatives]

InitAlt == PassOff /\ fout = FoutOff /\ fin \in AltInputs

CalculateAlternatives ==
    /\ fin.op = "alternatives"
    /\ fout.kind = "none"
    /\ fout' = [kind |-> "alternatives",
                result |-> calculate_alternatives(fin.route1, fin.route2, fin.route3,
                                                  fin.avoid_tolls, fin.num_alternatives)]
    /\ UNCHANGED <<fin, passVars>>

NextAlt == CalculateAlternatives

SpecAlt == InitAlt /\ [][NextAlt]_vars

----------------------------------------------------------------------------
(* The samplers with their caches: get_traffic_on_route, get_weather and    *)
(* get_weather_along_route called one after the other in one process         *)

WeatherWindow == Minutes(10)         \* cache_duration, weather_api.py line 22

NoNumber == 0 - 2      \* a JSON null where the provider documents a number

\* a weather dict; mock is the 'mock' key of the synthetic ones
WeatherData(precip, wind, alerts, mock) ==
    [precipitation_mm_h |-> precip, wind_speed_kph |-> wind, alerts |-> alerts,
     mock |-> mock]

\* random.choices / random.uniform of _mock_weather_data: a dry draw and the two
\* ends of a 'Rain' draw
_mock_weather_data ==
    {WeatherData(0, 500, <<>>, TRUE), WeatherData(500, 2500, <<>>, TRUE),
     WeatherData(1500, 500, <<>>, TRUE)}

\* what the provider answers: a time-out, an HTTP error status, an empty body,
\* a body without the 'wind' key, a body whose rain.1h is null, a complete body
WeatherResp(status, precip, wind) == [status |-> status, precip |-> precip, wind |-> wind]
WeatherResponses ==
    {WeatherResp(st, 0, 0) : st \in {"timeout", "http_error", "empty", "no_wind"}}
    \cup {WeatherResp("null_rain", NoNumber, 1000), WeatherResp("ok", 600, 1000)}

\* lines 40-44
WeatherCacheHit(cache, key, clock) ==
    key \in DOMAIN cache /\ clock - cache[key].time < WeatherWindow

\* get_weather: the dicts it can return, each with the cache it leaves
get_weather(api_key, cache, key, resp, clock) ==
    IF ~api_key
    THEN {[data |-> m, cache |-> cache, fetched |-> FALSE] : m \in _mock_weather_data}
    ELSE IF WeatherCacheHit(cache, key, clock)
    THEN {[data |-> cache[key].data, cache |-> cache, fetched |-> FALSE]}
    ELSE IF resp.status \in {"ok", "null_rain"}
    THEN LET weather_data == WeatherData(resp.precip, resp.wind, <<>>, FALSE)
         IN  {[data |-> weather_data, fetched |-> TRUE,
               cache |-> CacheInsert(cache, key, weather_data, clock)]}
    ELSE {[data |-> m, cache |-> cache, fetched |-> TRUE] : m \in _mock_weather_data}

\* weather_api.py line 176: precip > 10 raises TypeError when precip is None
WeatherRaises(weather) == weather.precipitation_mm_h = NoNumber

\* get_traffic_on_route: the dicts it can return, each with the cache it leaves
get_traffic_on_route(provider, cache, key, resp, hour, clock) ==
    IF CacheHit(cache, key, clock)
    THEN {[data |-> cache[key].data, cache |-> cache, fetched |-> FALSE]}
    ELSE {[data |-> t, cache |-> CacheInsert(cache, key, t, clock), fetched |-> TRUE] :
             t \in FetchTraffic(provider, resp, hour)}

\* lines 222-223: int(i * (len(waypoints) - 1) / (num_samples - 1)) for i in
\* range(num_samples); the division raises ZeroDivisionError for num_samples = 1
IndicesRaise(len, num_samples) == num_samples = 1
SampleIndices(len, num_samples) ==
    [i \in 1..num_samples |-> ((i - 1) * (len - 1)) \div (num_samples - 1)]

\* lines 225-229: get_weather for each index in turn, the cache threaded through
RECURSIVE SampleEach(_, _, _, _, _)
SampleEach(indices, api_key, cache, resp, clock) ==
    IF indices = <<>> THEN {[samples |-> <<>>, cache |-> cache]}
    ELSE UNION {
           {[samples |-> <<g.data>> \o r.samples, cache |-> r.cache] :
               r \in SampleEach(Tail(indices), api_key, g.cache, resp, clock)} :
           g \in get_weather(api_key, cache, Head(indices), resp, clock)}

\* get_weather_along_route over waypoints 0..len-1: what it returns or raises
get_weather_along_route(len, num_samples, api_key, cache, resp, clock) ==
    IF len < 2 THEN {[raised |-> FALSE, indices |-> <<>>, samples |-> <<>>, cache |-> cache]}
    ELSE IF IndicesRaise(len, num_samples)
    THEN {[raised |-> TRUE, indices |-> <<>>, samples |-> <<>>, cache |-> cache]}
    ELSE LET indices == SampleIndices(len, num_samples)
         IN  {[raised |-> FALSE, indices |-> indices, samples |-> r.samples,
               cache |-> r.cache] :
                 r \in SampleEach(indices, api_key, cache, resp, clock)}

MaxLookups == 2          \* lookups of one sampler in a row
MaxWaypoints == 4        \* longest waypoint list handed to get_weather_along_route
MaxNumSamples == 3       \* largest num_samples

SamplerKeys == {1, 2}
SamplerTick == Minutes(5)
SamplerEnd == T0 + Minutes(10)

TrafficResponses ==
    {Resp(st, 0, 0, 0) : st \in {"timeout", "http_error", "empty"}}
    \cup {Resp("ok", 10000, 600, 0), Resp("ok", 10000, 700, 2000)}

SamplerInputs ==
    {[op |-> "traffic", provider |-> p, hour |-> 3] : p \in {"google", "here", "tomtom", "mock"}}
    \cup {[op |-> "weather", api_key |-> k] : k \in BOOLEAN}
    \cup {[op |-> "along_route", api_key |-> k, len |-> n, num_samples |-> m] :
             k \in BOOLEAN, n \in 2..MaxWaypoints, m \in 1..MaxNumSamples}

\* the caches as earlier lookups of key 1 may have left them
AgedCaches(data, ages) ==
    {EmptyCache} \cup {CacheInsert(EmptyCache, 1, data, T0 - Minutes(a)) : a \in ages}

InitSampler ==
    /\ fin \in SamplerInputs
    /\ fout = FoutOff
    /\ pc = "off"
    /\ shipment = [id |-> 0, ref |-> "", vehicle_id |-> 0, stops |-> <<>>]
    /\ latest_pos = [lat |-> 0]
    /\ idx = 0
    /\ cursor = 0
    /\ cumulative_time = 0
    /\ etas = <<>>
    /\ legs = <<>>
    /\ now = T0
    /\ traffic_cache \in (IF fin.op = "traffic" /\ fin.provider # "mock"
                          THEN AgedCaches(TrafficSample(35, fin.provider), {1, 5})
                          ELSE {EmptyCache})
    /\ weather_cache \in (IF fin.op = "weather" /\ fin.api_key
                          THEN AgedCaches(WeatherData(1200, 1000, <<>>, FALSE), {6, 10})
                          ELSE {EmptyCache})
    /\ traffic_data = NoTraffic
    /\ store = <<>>
    /\ response = "none"

Log == IF fout.kind = "lookups" THEN fout.log ELSE <<>>

\* one call of get_traffic_on_route
LookupTraffic ==
    /\ fin.op = "traffic"
    /\ Len(Log) < MaxLookups
    /\ \E key \in SamplerKeys, resp \in TrafficResponses :
       \E g \in get_traffic_on_route(fin.provider, traffic_cache, key, resp, fin.hour, now) :
          /\ traffic_cache' = g.cache
          /\ fout' = [kind |-> "lookups",
                      log |-> Append(Log,
                          [key |-> key, at |-> now, fetched |-> g.fetched,
                           status |-> IF g.fetched THEN resp.status ELSE "unused",
                           data |-> g.data, synthetic |-> g.data.source = "mock",
                           raised |-> FALSE])]
    /\ UNCHANGED <<fin, pc, shipment, latest_pos, idx, cursor, cumulative_time, etas,
                   legs, now, weather_cache, traffic_data, store, response>>

\* one call of get_weather, and of calculate_weather_multiplier on what it returned
LookupWeather ==
    /\ fin.op = "weather"
    /\ Len(Log) < MaxLookups
    /\ \E key \in SamplerKeys, resp \in WeatherResponses :
       \E g \in get_weather(fin.api_key, weather_cache, key, resp, now) :
          /\ weather_cache' = g.cache
          /\ fout' = [kind |-> "lookups",
                      log |-> Append(Log,
                          [key |-> key, at |-> now, fetched |-> g.fetched,
                           status |-> IF g.fetched THEN resp.status ELSE "unused",
                           data |-> g.data, synthetic |-> g.data.mock,
                           raised |-> WeatherRaises(g.data)])]
    /\ UNCHANGED <<fin, pc, shipment, latest_pos, idx, cursor, cumulative_time, etas,
                   legs, now, traffic_cache, traffic_data, store, response>>

\* time passes between two lookups
SamplerClock ==
    /\ fin.op \in {"traffic", "weather"}
    /\ now < SamplerEnd
    /\ now' = now + SamplerTick
    /\ UNCHANGED <<fin, fout, pc, shipment, latest_pos, idx, cursor, cumulative_time,
                   etas, legs, traffic_cache, weather_cache, traffic_data, store,
                   response>>

\* one call of get_weather_along_route
WeatherAlongRoute ==
    /\ fin.op = "along_route"
    /\ fout.kind = "none"
    /\ \E resp \in WeatherResponses :
       \E r \in get_weather_along_route(fin.len, fin.num_samples, fin.api_key,
                                        weather_cache, resp, now) :
          /\ weather_cache' = r.cache
          /\ fout' = [kind |-> "along_route", raised |-> r.raised,
                      indices |-> r.indices, samples |-> r.samples]
    /\ UNCHANGED <<fin, pc, shipment, latest_pos, idx, cursor, cumulative_time, etas,
                   legs, now, traffic_cache, traffic_data, store, response>>

NextSampler ==
    \/ LookupTraffic
    \/ LookupWeather
    \/ SamplerClock
    \/ WeatherAlongRoute

SpecSampler == InitSampler /\ [][NextSampler]_vars

----------------------------------------------------------------------------
(* Concurrent invocations on the shared provider cache.  The server runs     *)
(* each request in its own thread (async_mode='threading'); the cache is a    *)
(* plain dict of the provider singleton, and the interpreter runs one dict    *)
(* operation (a membership test, a subscript read, a subscript store) at a    *)
(* time.  Every invocation looks up the same key.  Here pc maps an invocation *)
(* to its position in the sampler, legs maps it to its local variables, and   *)
(* fout keeps what each invocation last stored and last returned.             *)

Invocations == {1, 2}
ConcKey == 1

SharedWindow == IF fin.op = "traffic" THEN TrafficWindow ELSE WeatherWindow
SharedCache == IF fin.op = "traffic" THEN traffic_cache ELSE weather_cache

\* a cached entry passed for fresh whatever its age
IsFreshAnyAge(cached_time, clock, window) == cached_time <= clock

\* traffic_client.py line 63, weather_api.py line 43
IsFresh(cached_time, clock, window) == clock - cached_time < window

\* the provider call of a lookup that missed: the sample it yields and whether
\* the sampler stores it (traffic_client.py 66-77, weather_api.py 46-83)
SamplerFetch(resp) ==
    IF fin.op = "traffic"
    THEN {[data |-> t, cached |-> TRUE] : t \in FetchTraffic(fin.provider, resp, fin.hour)}
    ELSE IF resp.status \in {"ok", "null_rain"}
    THEN {[data |-> WeatherData(resp.precip, resp.wind, <<>>, FALSE), cached |-> TRUE]}
    ELSE {[data |-> m, cached |-> FALSE] : m \in _mock_weather_data}

ConcResponses ==
    IF fin.op = "traffic"
    THEN {Resp("timeout", 0, 0, 0), Resp("ok", 10000, 700, 2000)}
    ELSE {WeatherResp("timeout", 0, 0), WeatherResp("ok", 600, 1000)}

NoEntry == [data |-> "none", time |-> NoTs]
NoReturn == [from_cache |-> FALSE, data |-> "none", time |-> NoTs, at |-> NoTs]
NoLocals == [data |-> "none", time |-> NoTs, lookups |-> 0]

ConcInputs ==
    {[op |-> "traffic", provider |-> p, hour |-> 3] : p \in {"google", "mock"}}
    \cup {[op |-> "weather", api_key |-> TRUE]}

InitConc ==
    /\ fin \in ConcInputs
    /\ pc = [t \in Invocations |-> "idle"]
    /\ legs = [t \in Invocations |-> NoLocals]
    /\ shipment = [id |-> 0, ref |-> "", vehicle_id |-> 0, stops |-> <<>>]
    /\ latest_pos = [lat |-> 0]
    /\ idx = 0
    /\ cursor = 0
    /\ cumulative_time = 0
    /\ etas = <<>>
    /\ now = T0
    /\ traffic_cache \in (IF fin.op = "traffic"
                          THEN AgedCaches(TrafficSample(35, fin.provider), {1, 5})
                          ELSE {EmptyCache})
    /\ weather_cache \in (IF fin.op = "weather"
                          THEN AgedCaches(WeatherData(1200, 1000, <<>>, FALSE), {6, 10})
                          ELSE {EmptyCache})
    /\ fout = [kind |-> "invocations",
               initial |-> SharedCache,
               written |-> [t \in Invocations |-> NoEntry],
               returned |-> [t \in Invocations |-> NoReturn]]
    /\ traffic_data = NoTraffic
    /\ store = <<>>
    /\ response = "none"

concUnchanged == <<fin, shipment, latest_pos, idx, cursor, cumulative_time, etas,
                   now, traffic_data, store, response>>

\* the cache of the sampler under study after a step that leaves it cache
SharedCacheBecomes(cache) ==
    IF fin.op = "traffic"
    THEN traffic_cache' = cache /\ UNCHANGED weather_cache
    ELSE weather_cache' = cache /\ UNCHANGED traffic_cache

\* an invocation reaches the sampler; `cache_key in self.cache`
\* (traffic_client.py line 61, weather_api.py line 41)
ConcTest(t) ==
    /\ pc[t] = "idle"
    /\ legs[t].lookups < MaxLookups
    /\ legs' = [legs EXCEPT ![t].lookups = @ + 1]
    /\ pc' = [pc EXCEPT ![t] = IF ConcKey \in DOMAIN SharedCache THEN "read" ELSE "fetch"]
    /\ UNCHANGED <<fout, traffic_cache, weather_cache, concUnchanged>>

\* `cached_data, cached_time = self.cache[cache_key]` (line 62, line 42): a
\* KeyError when the key is not there any more
ConcRead(t) ==
    /\ pc[t] = "read"
    /\ IF ConcKey \in DOMAIN SharedCache
       THEN /\ legs' = [legs EXCEPT ![t].data = SharedCache[ConcKey].data,
                                    ![t].time = SharedCache[ConcKey].time]
            /\ pc' = [pc EXCEPT ![t] = "check"]
       ELSE /\ pc' = [pc EXCEPT ![t] = "failed"]
            /\ UNCHANGED legs
    /\ UNCHANGED <<fout, traffic_cache, weather_cache, concUnchanged>>

\* `if datetime.utcnow() - cached_time < self.cache_duration: return cached_data`
ConcCheck(t) ==
    /\ pc[t] = "check"
    /\ IF IsFresh(legs[t].time, now, SharedWindow)
       THEN /\ pc' = [pc EXCEPT ![t] = "idle"]
            /\ fout' = [fout EXCEPT !.returned[t] =
                           [from_cache |-> TRUE, data |-> legs[t].data,
                            time |-> legs[t].time, at |-> now]]
       ELSE /\ pc' = [pc EXCEPT ![t] = "fetch"]
            /\ UNCHANGED fout
    /\ UNCHANGED <<legs, traffic_cache, weather_cache, concUnchanged>>

\* the provider call; a sample that is not stored is returned at once
ConcFetch(t) ==
    /\ pc[t] = "fetch"
    /\ \E resp \in ConcResponses : \E f \in SamplerFetch(resp) :
          IF f.cached
          THEN /\ legs' = [legs EXCEPT ![t].data = f.data, ![t].time = NoTs]
               /\ pc' = [pc EXCEPT ![t] = "insert"]
               /\ UNCHANGED fout
          ELSE /\ pc' = [pc EXCEPT ![t] = "idle"]
               /\ fout' = [fout EXCEPT !.returned[t] =
                              [from_cache |-> FALSE, data |-> f.data,
                               time |-> NoTs, at |-> now]]
               /\ UNCHANGED legs
    /\ UNCHANGED <<traffic_cache, weather_cache, concUnchanged>>

\* `self.cache[cache_key] = (data, datetime.utcnow())` (line 77 of both samplers) and
\* the return of the sample
ConcInsert(t) ==
    /\ pc[t] = "insert"
    /\ SharedCacheBecomes(CacheInsert(SharedCache, ConcKey, legs[t].data, now))
    /\ fout' = [fout EXCEPT !.written[t] = [data |-> legs[t].data, time |-> now],
                            !.returned[t] = [from_cache |-> FALSE, data |-> legs[t].data,
                                             time |-> now, at |-> now]]
    /\ pc' = [pc EXCEPT ![t] = "idle"]
    /\ UNCHANGED <<legs, concUnchanged>>

NextConc ==
    \/ \E t \in Invocations : ConcTest(t)
    \/ \E t \in Invocations : ConcRead(t)
    \/ \E t \in Invocations : ConcCheck(t)
    \/ \E t \in Invocations : ConcFetch(t)
    \/ \E t \in Invocations : ConcInsert(t)
    \/ SamplerClock

SpecConc == InitConc /\ [][NextConc]_vars

----------------------------------------------------------------------------
(* Properties *)

Stops == shipment.stops
StopOf(stop_id) == CHOOSE st \in {Stops[i] : i \in 1..Len(Stops)} : st.id = stop_id
Rows == {store[r] : r \in 1..Len(store)}
PendingIdx == {i \in 1..Len(Stops) : ~Stops[i].completed}
LegIdxOf(stop_id) == CHOOSE k \in 1..Len(legs) : legs[k].stop_id = stop_id
\* the position update is one that starts a recomputation pass
Recomputes == shipment.ref = "PO-98765" /\ shipment.vehicle_id = fin.vehicle_id
HasLeg(stop_id) == \E k \in 1..Len(legs) : legs[k].stop_id = stop_id

\* C1: a completed stop is reported with its actual arrival, on time, not late,
\* reason on-time and confidence 1.0, by the computation and in the stored row,
\* whatever the position, the other stops and the provider outcomes are.
C1_CompletedStopsAreOnTime ==
    /\ \A i \in 1..Len(etas) :
          Stops[i].completed =>
             /\ etas[i].stop_id = Stops[i].id
             /\ etas[i].eta_ts = Stops[i].actual_arr_ts
             /\ etas[i].on_time
             /\ etas[i].late_by_min = 0
             /\ etas[i].reason_code = "on_time"
             /\ etas[i].confidence = Score(100)
    /\ \A row \in Rows :
          StopOf(row.stop_id).completed =>
             /\ row.eta_ts = StopOf(row.stop_id).actual_arr_ts
             /\ row.on_time
             /\ row.late_by_min = 0
             /\ row.reason_code = "on_time"
             /\ row.confidence = Score(100)

\* a finished pass that stored the row of a completed stop next to a late pending
\* stop under heavy traffic
C1_Witness ==
    /\ pc = "done"
    /\ \E row \in Rows : StopOf(row.stop_id).completed
    /\ \E row \in Rows : ~StopOf(row.stop_id).completed /\ row.late_by_min > 5
    /\ traffic_data.present /\ traffic_data.speed_ratio = 35

\* C2: a leg whose routing call failed is given the great-circle distance from
\* the cursor to the stop and that distance at 70 km/h as its travel time, and
\* whatever legs fail the pass goes on and returns one result per stop.
C2_RoutingFallback ==
    /\ \A k \in 1..Len(legs) :
          ~legs[k].route.success =>
             LET stop == StopOf(legs[k].stop_id)
                 km == KmPerCell * Abs(stop.lat - legs[k].origin)
             IN  /\ legs[k].travel_time * 70 = km * 60 * TicksPerMin
                 /\ \A i \in 1..Len(etas) :
                       etas[i].stop_id = stop.id => etas[i].distance_km = km
    /\ legs # <<>> =>
          legs[Len(legs)].origin =
             (IF Len(legs) = 1 THEN latest_pos.lat
              ELSE StopOf(legs[Len(legs) - 1].stop_id).lat)
    /\ response # "error"
    /\ pc = "compute" => Len(etas) = idx - 1
    /\ (pc \in {"store", "done"} /\ Recomputes) =>
          /\ Len(etas) = Len(Stops)
          /\ \A i \in 1..Len(Stops) : etas[i].stop_id = Stops[i].id

\* every leg of a pass of two or more pending stops failed to route, the vehicle
\* being away from the first stop
C2_Witness ==
    /\ pc = "done"
    /\ Len(legs) >= 2
    /\ \A k \in 1..Len(legs) : ~legs[k].route.success
    /\ latest_pos.lat # Stops[1].lat
    /\ Len(etas) = Len(Stops)

\* the lateness of a stored row, recomputed from its timestamps
RawLateness(row) ==
    LET planned == StopOf(row.stop_id).planned_arr_ts
    IN  IF planned # NoTs /\ row.eta_ts > planned
        THEN (row.eta_ts - planned) \div TicksPerMin ELSE 0

\* C3: a result late by at most 5 minutes carries the reason on-time whatever
\* the traffic, weather and dwell evidence is, and still reports its lateness.
C3_NoiseThreshold ==
    \A row \in Rows :
       ~StopOf(row.stop_id).completed =>
          /\ row.late_by_min = RawLateness(row)
          /\ row.late_by_min <= 5 => row.reason_code = "on_time"

\* a stop late by 1 to 5 minutes stored as on-time although the traffic is
\* heavy, the leg had rain above 5 mm/h and an earlier stop dwelt too long
C3_Witness ==
    \E i \in 1..Len(etas) : \E row \in Rows :
       /\ row.stop_id = etas[i].stop_id
       /\ ~Stops[i].completed
       /\ row.late_by_min \in 1..5
       /\ ~row.on_time
       /\ row.reason_code = "on_time"
       /\ traffic_data.present /\ traffic_data.speed_ratio < 40
       /\ etas[i].weather_impact # NoText
       /\ ContainsWord(etas[i].weather_impact, RainWords)
       /\ FirstMagnitude(etas[i].weather_impact, "mm/h") > 50
       /\ \E j \in 1..Len(Stops) :
             /\ Stops[j].completed /\ Stops[j].actual_arr_ts # NoTs
             /\ Stops[j].actual_dep_ts - Stops[j].actual_arr_ts
                   > Minutes(2 * Stops[j].planned_service_min)

\* travel plus service of the pending stops before position i
RECURSIVE EarlierTime(_)
EarlierTime(i) ==
    IF i <= 1 THEN 0
    ELSE EarlierTime(i - 1) +
         (IF ~Stops[i - 1].completed /\ HasLeg(Stops[i - 1].id)
          THEN legs[LegIdxOf(Stops[i - 1].id)].travel_time
               + Minutes(Stops[i - 1].planned_service_min)
          ELSE 0)

\* the pending stop before position i, 0 when there is none
PrevPending(i) ==
    IF \E j \in 1..(i - 1) : ~Stops[j].completed
    THEN CHOOSE j \in 1..(i - 1) :
            ~Stops[j].completed /\ \A m \in (j + 1)..(i - 1) : Stops[m].completed
    ELSE 0

\* C4: the arrival of a pending stop is the clock plus the time accumulated
\* over the earlier pending stops plus the leg's travel time plus the stop's
\* service time; its leg starts at the previous pending stop, or at the vehicle;
\* completed stops move neither the accumulated time nor the cursor.
C4_ArrivalFormula ==
    \A i \in 1..Len(etas) :
       ~Stops[i].completed =>
          LET leg == legs[LegIdxOf(Stops[i].id)]
          IN  /\ HasLeg(Stops[i].id)
              /\ etas[i].eta_ts = leg.clock + EarlierTime(i) + leg.travel_time
                                  + Minutes(Stops[i].planned_service_min)
              /\ leg.origin = (IF PrevPending(i) = 0 THEN latest_pos.lat
                               ELSE Stops[PrevPending(i)].lat)
              /\ (i = Len(etas) /\ pc = "compute") =>
                    /\ cumulative_time = EarlierTime(i + 1)
                    /\ cursor = Stops[i].lat

\* two pending stops computed one after the other
C4_Witness ==
    /\ Len(legs) >= 2
    /\ Len(etas) = Len(Stops)
    /\ etas[Len(etas)].eta_ts > etas[Len(etas) - 1].eta_ts
    /\ ~Stops[Len(etas)].completed /\ ~Stops[Len(etas) - 1].completed

\* the base duration of a leg: the routed one, or the fallback's
BaseDuration(leg) ==
    IF leg.route.success THEN leg.route.duration
    ELSE (KmPerCell * Abs(StopOf(leg.stop_id).lat - leg.origin) * 60 * TicksPerMin) \div 70

\* C5: the travel time of every pending leg, routed or fallback, is the base
\* duration divided by min(weather, traffic) when that is below 1.0, and the
\* base duration otherwise.
C5_EveryLegAdjusted ==
    \A k \in 1..Len(legs) :
       LET effective == Min(legs[k].weather_multiplier, legs[k].traffic_multiplier)
       IN  legs[k].travel_time * effective =
              BaseDuration(legs[k]) * (IF effective < 100 THEN 100 ELSE effective)

\* C6: a stop whose arrival is after the planned one is late by the whole
\* minutes of the difference, any other stop by 0, and never by less than 0.
C6_LatenessFloor ==
    \A i \in 1..Len(etas) :
       ~Stops[i].completed =>
          LET planned == Stops[i].planned_arr_ts
              over == etas[i].eta_ts - planned
          IN  /\ etas[i].late_by_min >= 0
              /\ (planned # NoTs /\ over > 0) =>
                    /\ ~etas[i].on_time
                    /\ etas[i].late_by_min * TicksPerMin <= over
                    /\ over < (etas[i].late_by_min + 1) * TicksPerMin
              /\ ~(planned # NoTs /\ over > 0) =>
                    etas[i].on_time /\ etas[i].late_by_min = 0

\* a stop late by more than half a minute beyond a whole number of minutes
C6_Witness ==
    \E i \in 1..Len(etas) :
       /\ ~Stops[i].completed /\ ~etas[i].on_time
       /\ etas[i].late_by_min >= 1
       /\ etas[i].eta_ts - Stops[i].planned_arr_ts
             >= etas[i].late_by_min * TicksPerMin + TicksPerMin \div 2

\* C7: no multiplier of the calculators is below 0.4, and the traffic one is
\* max(speed_ratio, 0.4), a missing speed_ratio counting as 1.0.
C7_MultiplierFloor ==
    fout.kind = "multiplier" =>
       /\ fout.result.multiplier >= 40
       /\ fin.op \in {"traffic", "traffic_dict"} =>
             fout.result.multiplier =
                (IF ~fout.sample.has_ratio THEN 100
                 ELSE IF fout.sample.speed_ratio < 40 THEN 40
                 ELSE fout.sample.speed_ratio)

\* a provider sample of speed ratio 0 given the multiplier 0.4
C7_Witness ==
    /\ fout.kind = "multiplier"
    /\ fin.op = "traffic"
    /\ fout.sample.has_ratio /\ fout.sample.speed_ratio = 0
    /\ fout.result.multiplier = 40

\* C8: every multiplier produced for a sample the samplers return lies in
\* [0.4, 1.0].
C8_MultiplierRange ==
    (fout.kind = "multiplier" /\ fin.op \in {"weather", "worst", "traffic"}) =>
       (40 <= fout.result.multiplier /\ fout.result.multiplier <= 100)

\* the ladder of the weather multiplier, as the claim states it
LadderValue(precip, wind) ==
    IF precip > 1000 THEN 60 ELSE IF precip > 500 THEN 80 ELSE IF precip > 0 THEN 90
    ELSE IF wind > 4000 THEN 70 ELSE IF wind > 3000 THEN 85 ELSE 100

\* C9: the weather multiplier follows the precipitation / wind ladder, 1.0 having
\* the clear-weather reason; active alerts make it min(multiplier, 0.7) and
\* replace the reason by the alert names; 12 mm/h gives 0.6 and a reason
\* containing "rain".
C9_WeatherLadder ==
    (fout.kind = "multiplier" /\ fin.op = "weather") =>
       LET w == fin.weather
           ladder == LadderValue(w.precipitation_mm_h, w.wind_speed_kph)
           r == fout.result
       IN  /\ w.alerts = <<>> => r.multiplier = ladder
           /\ (w.alerts = <<>> /\ ladder = 100) =>
                 r.reason = <<W("Clear"), W("weather"), W("conditions")>>
           /\ w.alerts # <<>> =>
                 /\ r.multiplier = Min(ladder, 70)
                 /\ r.reason = <<W("Weather"), W("alerts:")>> \o JoinAlerts(w.alerts)
           /\ (w.alerts = <<>> /\ w.precipitation_mm_h = 1200) =>
                 /\ r.multiplier = 60
                 /\ ContainsWord(r.reason, {"rain"})
                 /\ FirstMagnitude(r.reason, "mm/h") = 120

\* 12 mm/h without alerts gave 0.6 and a rain reason
C9_Witness ==
    /\ fout.kind = "multiplier" /\ fin.op = "weather"
    /\ fin.weather.precipitation_mm_h = 1200 /\ fin.weather.alerts = <<>>
    /\ fout.result.multiplier = 60
    /\ ContainsWord(fout.result.reason, {"rain"})

\* the candidates registered from the evidence, before the selection
Candidates ==
    DwellCandidate(
        WindCandidate(RainCandidate(TrafficCandidate(<<>>, fin.traffic),
                                    fin.weather_impact), fin.weather_impact),
        fin.stops)
CandidateSet == {Candidates[i] : i \in 1..Len(Candidates)}
ReasonRank(reason) ==
    IF reason = "traffic_congestion" THEN 1
    ELSE IF reason = "weather_impact" THEN 2 ELSE 3

\* C10: for a lateness above 5 minutes with a registered candidate the highest
\* score wins and is the confidence, equal scores going to the candidate
\* registered first (traffic, weather, dwell); traffic at 0.90 beats weather at
\* 0.65.
C10_HighestScoreWins ==
    (fout.kind = "scored" /\ fin.late_by_min > 5 /\ Candidates # <<>>) =>
       /\ \E c \in CandidateSet :
             /\ c.reason = fout.result.reason_code
             /\ c.score = fout.result.confidence
             /\ \A d \in CandidateSet :
                   \/ d.score < c.score
                   \/ d.score = c.score /\ ReasonRank(c.reason) <= ReasonRank(d.reason)
       /\ (fin.traffic.present /\ fin.traffic.speed_ratio = 35
           /\ fin.weather_impact = calculate_weather_multiplier(Sample(600, 1000, <<>>)).reason)
             => /\ fout.result.reason_code = "traffic_congestion"
                /\ fout.result.confidence = Score(90)

\* traffic at 0.90 won over rain of 6 mm/h and over a dwell capped at 0.90
C10_Witness ==
    /\ fout.kind = "scored" /\ fin.late_by_min > 5
    /\ fin.traffic.present /\ fin.traffic.speed_ratio = 35
    /\ fin.weather_impact = calculate_weather_multiplier(Sample(600, 1000, <<>>)).reason
    /\ \E c \in CandidateSet : c.reason = "facility_dwell" /\ c.score = Score(90)
    /\ \E c \in CandidateSet : c.reason = "weather_impact" /\ c.score = Score(65)
    /\ fout.result.reason_code = "traffic_congestion"
    /\ fout.result.confidence = Score(90)

\* C11 as stated: without a traffic, weather or dwell candidate a lateness above
\* 15 minutes (the band above 30 and the band from 15 to 30) is classified as
\* traffic congestion with confidence 0.50 and the generic explanation.
C11_FallbackHalf ==
    (fout.kind = "scored" /\ fin.late_by_min > 15 /\ Candidates = <<>>) =>
       /\ fout.result.reason_code = "traffic_congestion"
       /\ fout.result.confidence = Score(50)
       /\ fout.result.explanation = "moderate_delays"

\* C11 amended: without a candidate a lateness above 5 minutes is classified as
\* traffic congestion, with confidence 0.70 above 30 minutes, 0.60 above 15 and
\* up to 30 minutes, and 0.50 with the generic explanation from 6 to 15
\* minutes; in the two upper bands the explanation is the traffic one.
C11_FallbackBands ==
    (fout.kind = "scored" /\ fin.late_by_min > 5 /\ Candidates = <<>>) =>
       LET late == fin.late_by_min
           r == fout.result
       IN  /\ r.reason_code = "traffic_congestion"
           /\ late > 30 => r.confidence = Score(70)
           /\ (late > 15 /\ late <= 30) => r.confidence = Score(60)
           /\ late <= 15 => (r.confidence = Score(50) /\ r.explanation = "moderate_delays")
           /\ late > 15 =>
                 r.explanation = (IF fin.traffic.present THEN "traffic_sample"
                                  ELSE "traffic_plain")

\* 31 minutes late without any evidence was scored 0.70
C11_Witness ==
    /\ fout.kind = "scored" /\ fin.late_by_min = 31 /\ Candidates = <<>>
    /\ ~fin.traffic.present /\ fin.weather_impact = NoText
    /\ fout.result.reason_code = "traffic_congestion"
    /\ fout.result.confidence = Score(70)

\* the stops the claim lets register a dwell candidate
PlannedService(stop) ==
    IF stop.planned_service_min = NoKey THEN 30 ELSE stop.planned_service_min
ActualDwell(stop) == stop.actual_dep_ts - stop.actual_arr_ts
DwellQualifies(stop) ==
    /\ stop.completed /\ stop.actual_arr_ts # NoTs /\ stop.actual_dep_ts # NoTs
    /\ ActualDwell(stop) * 10 > PlannedService(stop) * 12 * TicksPerMin
ClaimedDwellScore(stop) ==
    Min(Score(90),
        Score(60) + ((ActualDwell(stop) - Minutes(PlannedService(stop))) * 60) \div TicksPerMin)
DwellCandidates == {c \in CandidateSet : c.reason = "facility_dwell"}

\* C12: the facility-dwell candidate is registered exactly when a completed stop
\* with recorded arrival and departure dwelt more than 1.2 times its planned
\* service, with score min(0.90, 0.60 + excess minutes / 60) of such a stop;
\* planned 30 and actual 40 gives 0.60 + 10/60, a dwell of exactly 1.2 times the
\* planned service registers nothing.
C12_DwellCandidate ==
    (fout.kind = "scored" /\ fin.late_by_min > 5) =>
       LET qualifying == {i \in 1..Len(fin.stops) : DwellQualifies(fin.stops[i])}
       IN  /\ (DwellCandidates # {}) <=> (qualifying # {})
           /\ \A c \in DwellCandidates :
                 \E i \in qualifying : c.score = ClaimedDwellScore(fin.stops[i])
           /\ fin.stops = <<Dwelt(30, 40)>> =>
                 \E c \in DwellCandidates : c.score = Score(60) + 10 * 60

TrafficCandidates == {c \in CandidateSet : c.reason = "traffic_congestion"}

\* C13: the traffic candidate scores 0.90 when a sample is present with a speed
\* ratio below 0.4, else 0.75 when the sample's level is moderate or heavy, and
\* is not registered from the sample otherwise (level none or light, or no
\* sample).
C13_TrafficCandidate ==
    (fout.kind = "scored" /\ fin.late_by_min > 5) =>
       LET t == fin.traffic
           low == t.present /\ t.speed_ratio < 40
           slowed == t.present /\ ~low /\ t.congestion_level \in {"moderate", "heavy"}
       IN  /\ low => TrafficCandidates = {[reason |-> "traffic_congestion", score |-> Score(90)]}
           /\ slowed => TrafficCandidates = {[reason |-> "traffic_congestion", score |-> Score(75)]}
           /\ (~low /\ ~slowed) => TrafficCandidates = {}
           /\ (low /\ Len(Candidates) = 1) => fout.result.confidence = Score(90)
           /\ (slowed /\ Len(Candidates) = 1) => fout.result.confidence = Score(75)

\* a sample at exactly 0.4 of free flow, level moderate, was scored 0.75
C13_Witness ==
    /\ fout.kind = "scored" /\ fin.late_by_min > 5
    /\ fin.traffic.present /\ fin.traffic.speed_ratio = 40
    /\ fin.traffic.congestion_level = "moderate"
    /\ Len(Candidates) = 1
    /\ fout.result.reason_code = "traffic_congestion"
    /\ fout.result.confidence = Score(75)

WeatherCandidates == {c \in CandidateSet : c.reason = "weather_impact"}
\* the magnitudes a weather reason text states, in tenths; 0 when it states none
TextPrecip(text) ==
    IF text # NoText /\ ContainsWord(text, RainWords) /\ HasMagnitude(text, "mm/h")
    THEN FirstMagnitude(text, "mm/h") ELSE 0
TextWind(text) ==
    IF text # NoText /\ ContainsWord(text, WindWords) /\ HasMagnitude(text, "km/h")
    THEN FirstMagnitude(text, "km/h") ELSE 0

\* C14: the weather candidate is scored from the magnitudes of the leg's weather
\* reason text: precipitation above 10 mm/h gives 0.85, above 5 mm/h 0.65, wind
\* above 40 km/h 0.80; precipitation of at most 5 mm/h and wind of at most
\* 40 km/h (or no text) register no weather candidate.
C14_WeatherCandidate ==
    (fout.kind = "scored" /\ fin.late_by_min > 5) =>
       LET precip == TextPrecip(fin.weather_impact)
           wind == TextWind(fin.weather_impact)
           Only(pct) == WeatherCandidates = {[reason |-> "weather_impact", score |-> Score(pct)]}
       IN  /\ (precip > 100 /\ wind <= 400) => Only(85)
           /\ (precip > 50 /\ precip <= 100 /\ wind <= 400) => Only(65)
           /\ (wind > 400 /\ precip <= 50) => Only(80)
           /\ (precip <= 50 /\ wind <= 400) => WeatherCandidates = {}
           /\ (Len(Candidates) = 1 /\ WeatherCandidates # {}) =>
                 /\ fout.result.reason_code = "weather_impact"
                 /\ \E c \in WeatherCandidates : fout.result.confidence = c.score

\* rain of 10.04 mm/h, printed as 10.0 mm/h, was scored 0.65
C14_Witness ==
    /\ fout.kind = "scored" /\ fin.late_by_min > 5
    /\ fin.weather_impact = calculate_weather_multiplier(Sample(1004, 1000, <<>>)).reason
    /\ TextPrecip(fin.weather_impact) = 100
    /\ Len(Candidates) = 1
    /\ fout.result.reason_code = "weather_impact"
    /\ fout.result.confidence = Score(65)

\* C15: on the same traffic, weather and dwell inputs a larger lateness never
\* gives a lower confidence than a lateness whose winning reason is facility
\* dwell or comes from the fallback band above 30 minutes.
C15_LatenessMonotone ==
    fout.kind = "rescored" =>
       ((\/ fout.first.reason_code = "facility_dwell"
         \/ fin.late_by_min > 30 /\ Candidates = <<>>)
        => fout.result.confidence >= fout.first.confidence)

\* a dwell winner at 6 minutes and a fallback winner at 31 minutes were scored
\* again at 45 minutes
C15_Witness ==
    /\ fout.kind = "rescored" /\ fout.late_by_min = 45
    /\ \/ fin.late_by_min = 6 /\ fout.first.reason_code = "facility_dwell"
          /\ fout.result.reason_code = "facility_dwell"
       \/ fin.late_by_min = 31 /\ Candidates = <<>>
          /\ fout.first.confidence = Score(70) /\ fout.result.confidence = Score(70)

\* C16: a second invocation on the same stops and vehicle position, with the same
\* provider samples and the same clock, produces for every stop the ETA result
\* of the first (eta_ts, on_time, late_by_min, reason, confidence), computed and
\* persisted.
C16_SameInputsSameResults ==
    (pc = "done" /\ fout.kind = "first") =>
       /\ etas = fout.etas
       /\ Len(store) = 2 * Len(fout.rows)
       /\ \A i \in 1..Len(fout.rows) :
             LET a == fout.rows[i]
                 b == store[Len(fout.rows) + i]
             IN  /\ a.stop_id = b.stop_id /\ a.eta_ts = b.eta_ts
                 /\ a.on_time = b.on_time /\ a.late_by_min = b.late_by_min
                 /\ a.reason_code = b.reason_code /\ a.confidence = b.confidence

\* two passes over two pending stops, the second stop late, ended alike
C16_Witness ==
    /\ pc = "done" /\ fout.kind = "first"
    /\ Len(legs) = 2 /\ Len(fout.legs) = 2
    /\ Len(fout.rows) = 2 /\ Len(store) = 4
    /\ store[4].late_by_min > 5 /\ store[4].reason_code # "on_time"
    /\ store[4] = store[2]

\* C17: every result of the classifier, and every persisted ETA row, carries one
\* reason code of the closed set and a confidence between 0 and 1.
C17_ClosedReasonSet ==
    /\ fout.kind = "scored" =>
          /\ fout.result.reason_code \in REASON_CODES
          /\ 0 <= fout.result.confidence /\ fout.result.confidence <= Score(100)
    /\ \A i \in 1..Len(store) :
          /\ store[i].reason_code \in REASON_CODES
          /\ 0 <= store[i].confidence /\ store[i].confidence <= Score(100)

\* a dwell 40 minutes over plan won at the capped score 0.90
C17_Witness ==
    /\ fout.kind = "scored" /\ fin.late_by_min > 5
    /\ \E i \in 1..Len(fin.stops) : fin.stops[i] = Dwelt(30, 70)
    /\ fout.result.reason_code = "facility_dwell"
    /\ fout.result.confidence = Score(90)

\* the provider calls of the log that failed: a time-out, an HTTP error, an empty
\* or malformed body (for the weather provider a missing key or a null
\* magnitude), and every call made without credentials
FailedCalls ==
    {i \in 1..Len(Log) :
        \/ Log[i].fetched /\ Log[i].status # "ok"
        \/ fin.op = "traffic" /\ Log[i].fetched /\ fin.provider = "mock"
        \/ fin.op = "weather" /\ ~fin.api_key}

\* C18: for the weather and the traffic provider and every failure mode of a
\* call (missing credentials, time-out, HTTP error, malformed or empty
\* response) the sampler hands a synthetic sample to its caller, and no error
\* comes of it for the pass.
C18_SyntheticOnFailure ==
    \A i \in FailedCalls : Log[i].synthetic /\ ~Log[i].raised

\* C19: for at least 2 waypoints and num_samples of at least 1 the weather
\* sampler does not fail and returns num_samples samples taken at indices
\* spread evenly over the waypoints, the first and the last waypoint among them
\* when num_samples is at least 2.
C19_EvenSampling ==
    (fout.kind = "along_route" /\ fin.len >= 2 /\ fin.num_samples >= 1) =>
       /\ ~fout.raised
       /\ Len(fout.indices) = fin.num_samples
       /\ Len(fout.samples) = fin.num_samples
       /\ \A i \in 1..Len(fout.indices) : fout.indices[i] \in 0..(fin.len - 1)
       /\ \A i \in 1..(Len(fout.indices) - 1) :
             LET gap == fout.indices[i + 1] - fout.indices[i]
                 even == (fin.len - 1) \div (fin.num_samples - 1)
             IN  gap = even \/ gap = even + 1
       /\ fin.num_samples >= 2 =>
             /\ fout.indices[1] = 0
             /\ fout.indices[fin.num_samples] = fin.len - 1

SamplerCache == IF fin.op = "traffic" THEN traffic_cache ELSE weather_cache
SamplerWindow == IF fin.op = "traffic" THEN TrafficWindow ELSE WeatherWindow

\* C20: a lookup returns the cached sample of its key, without a fetch, when the
\* entry is younger than the window (5 minutes for traffic, 10 for weather);
\* otherwise it obtains a new sample, live or synthetic, and inserts it: what a
\* lookup returned is the fresh entry of its key, and a lookup of the same key
\* within the window of a fetched sample returns that sample.
C20_LookupsAreCached ==
    fout.kind = "lookups" =>
       /\ LET e == Log[Len(Log)]
          IN  e.at = now =>
                 /\ e.key \in DOMAIN SamplerCache
                 /\ SamplerCache[e.key].data = e.data
                 /\ now - SamplerCache[e.key].time < SamplerWindow
                 /\ e.fetched => SamplerCache[e.key].time = now
       /\ \A i, j \in 1..Len(Log) :
             (i < j /\ Log[i].key = Log[j].key /\ Log[i].fetched
                /\ Log[j].at - Log[i].at < SamplerWindow)
             => (Log[j].data = Log[i].data /\ ~Log[j].fetched)

\* the pairs the shared cache can hold: what was there at the start and what an
\* invocation stored in one step after its fetch had finished
WholeEntries ==
    {fout.initial[k] : k \in DOMAIN fout.initial}
    \cup {fout.written[t] : t \in {u \in Invocations : fout.written[u].time # NoTs}}

\* C21: under every interleaving of two invocations that look up and insert the
\* same key of the shared cache no lookup returns an entry as old as the
\* freshness window or older, every entry in the cache, and so every entry read,
\* is a whole (sample, fetch time) pair stored by one finished fetch, and no
\* invocation fails.
C21_SharedCacheSafe ==
    fout.kind = "invocations" =>
       /\ \A t \in Invocations :
             /\ pc[t] # "failed"
             /\ fout.returned[t].from_cache =>
                   /\ fout.returned[t].time # NoTs
                   /\ fout.returned[t].at - fout.returned[t].time < SharedWindow
             /\ pc[t] = "check" => legs[t].time # NoTs
       /\ \A k \in DOMAIN SharedCache : SharedCache[k] \in WholeEntries

\* invocation 1 was answered from the cache with the pair invocation 2 had
\* stored, and invocation 2, the pair having aged, is about to store over it
C21_Witness ==
    /\ fout.kind = "invocations"
    /\ fout.written[2].time # NoTs
    /\ fout.returned[1].from_cache
    /\ fout.returned[1].data = fout.written[2].data
    /\ fout.returned[1].time = fout.written[2].time
    /\ pc[2] = "insert"
    /\ pc[1] = "read"

\* a stop list with a stop missing a required field, or with sequence numbers
\* that repeat or do not ascend
Malformed(stops) ==
    \/ \E i \in 1..Len(stops) : stops[i].lat = NoKey
    \/ \E i \in 1..(Len(stops) - 1) : stops[i].seq >= stops[i + 1].seq

\* C22: an invocation on a malformed stop list is rejected before any leg is
\* processed: no provider is sampled, no routing call made, no ETA result
\* produced or persisted, and the invocation ends in an error.
C22_MalformedRejected ==
    (fin.op = "positions" /\ Malformed(Stops)) =>
       /\ legs = <<>>
       /\ etas = <<>>
       /\ store = <<>>
       /\ traffic_cache = EmptyCache
       /\ pc = "done" => response = "error"

\* the rows the current pass has added to the table
AddedRows == {k \in (Len(PassStart) + 1)..Len(store) : TRUE}

\* the table only grows at its end
AppendOnly ==
    /\ Len(store') >= Len(store)
    /\ SubSeq(store', 1, Len(store)) = store

\* after a pass: one new row per pending stop, and the latest-ETA lookup of a
\* stop answers with a row of greatest timestamp, the one this pass added
LatestIsNewest ==
    (pc = "done" /\ response = "ok") =>
       /\ SubSeq(store, 1, Len(PassStart)) = PassStart
       /\ \A i \in PendingIdx :
             Cardinality({k \in AddedRows : store[k].stop_id = Stops[i].id}) = 1
       /\ \A i \in 1..Len(Stops) :
             LET latest == get_latest_eta(store, shipment.id, Stops[i].id)
             IN  /\ latest # {}
                 /\ \A r \in latest :
                       /\ \A k \in 1..Len(store) :
                             store[k].stop_id = Stops[i].id => store[k].ts <= r.ts
                       /\ \E k \in AddedRows : store[k] = r

\* C23: over any sequence of passes the stored ETA results are only appended,
\* never changed or removed; each pass adds exactly one result per pending
\* stop; the latest-ETA lookup of a stop returns the stored result of greatest
\* computation timestamp.
C23_AppendOnlyHistory == [][AppendOnly]_vars /\ []LatestIsNewest

\* the second pass has stored its rows after those of the first, and the lookup
\* for a pending stop answers with the second one
C23_Witness ==
    /\ pc = "done" /\ PassNo = 2
    /\ Len(PassStart) = Len(Stops) /\ Len(store) = 2 * Len(Stops)
    /\ \E i \in PendingIdx :
          /\ get_latest_eta(store, shipment.id, Stops[i].id) = {store[Len(Stops) + i]}
          /\ store[i].stop_id = Stops[i].id
          /\ store[i].ts < store[Len(Stops) + i].ts

\* C24: whatever routing calls succeed or fail, calculate_alternatives returns
\* a list of at most num_alternatives route options, and a list that is not
\* empty and begins with the primary route whenever the primary call succeeds.
C24_AlternativesBounded ==
    fout.kind = "alternatives" =>
       /\ ~fout.result.raised
       /\ Len(fout.result.options) <= fin.num_alternatives
       /\ fin.route1.success =>
             /\ fout.result.options # <<>>
             /\ fout.result.options[1].id = 1

\* C25 as stated: for every late pending stop the traffic sample handed to the
\* classifier is the sample of the stop's own leg, the one whose multiplier
\* went into the stop's ETA.
C25_OwnLegTraffic ==
    \A row \in Rows :
       (~StopOf(row.stop_id).completed /\ row.late_by_min > 5) =>
          /\ HasLeg(row.stop_id)
          /\ traffic_data = legs[LegIdxOf(row.stop_id)].traffic

\* C25 amended: one traffic sample is handed to the classifier for all stops of
\* a pass, the sample of the route from the vehicle's position to the first
\* pending stop, which is the sample of the first leg; every stored row of a
\* pending stop carries the classification of its lateness, of its own leg's
\* weather reason (when that leg's weather multiplier is below 1.0) and of that
\* one traffic sample.
C25_FirstLegTraffic ==
    (pc \in {"store", "done"} /\ Recomputes) =>
       /\ legs # <<>> =>
             /\ traffic_data = legs[1].traffic
             /\ \A i \in PendingIdx :
                   (\A j \in PendingIdx : i <= j) => legs[1].stop_id = Stops[i].id
       /\ legs = <<>> => traffic_data = NoTraffic
       /\ \A row \in Rows :
             ~StopOf(row.stop_id).completed =>
                LET leg == legs[LegIdxOf(row.stop_id)]
                    scored == score_delay_reason(
                                 Stops, row.late_by_min,
                                 IF leg.weather_multiplier < 100 THEN leg.weather_reason
                                 ELSE NoText,
                                 legs[1].traffic)
                IN  /\ row.reason_code = scored.reason_code
                    /\ row.confidence = scored.confidence

\* the second pending stop, late by more than 5 minutes on a leg with free
\* traffic, was stored as delayed by the heavy congestion of the first leg
C25_Witness ==
    /\ pc = "done"
    /\ Len(legs) >= 2
    /\ legs[1].traffic.speed_ratio = 35
    /\ legs[2].traffic.speed_ratio = 100
    /\ traffic_data = legs[1].traffic
    /\ \E row \in Rows :
          /\ row.stop_id = legs[2].stop_id
          /\ row.late_by_min > 5
          /\ row.reason_code = "traffic_congestion"
          /\ row.confidence = Score(90)

\* C26: every accepted position update of the vehicle assigned to a shipment
\* with pending stops has run one recomputation pass for that shipment,
\* whatever its reference, and persisted one ETA result for each pending stop.
C26_EveryUpdateRecomputes ==
    (pc = "done" /\ response = "ok" /\ fin.op = "positions"
       /\ shipment.vehicle_id = fin.vehicle_id /\ PendingIdx # {}) =>
       /\ Len(etas) = Len(Stops)
       /\ \A i \in PendingIdx :
             Cardinality({r \in 1..Len(store) : store[r].stop_id = Stops[i].id}) = 1

\* C27: within one pass the arrival timestamps computed for the pending stops
\* do not decrease along the stop list.
C27_EtasAscend ==
    \A i, j \in 1..Len(etas) :
       (i < j /\ ~Stops[i].completed /\ ~Stops[j].completed) =>
          etas[i].eta_ts <= etas[j].eta_ts

\* two pending stops, the first leg the slower one, the second stop's arrival
\* after the first's
C27_Witness ==
    /\ pc = "done"
    /\ Len(legs) = 2 /\ Len(etas) = Len(Stops)
    /\ legs[1].travel_time > legs[2].travel_time
    /\ \E i, j \in PendingIdx :
          /\ i < j
          /\ etas[i].eta_ts < etas[j].eta_ts
          /\ etas[j].eta_ts - etas[i].eta_ts >= legs[2].travel_time

\* the completed stops whose dwell the comparison of line 254 finds above 1.2
\* times the planned service, a missing planned service counting as 30 minutes
OverThreshold(stops) ==
    {i \in 1..Len(stops) :
        /\ stops[i].completed /\ stops[i].actual_arr_ts # NoTs
        /\ stops[i].actual_dep_ts # NoTs
        /\ ExceedsThreshold(ActualDwell(stops[i]), PlannedService(stops[i]))}

\* C28: when completed stops exceed the dwell threshold the facility-dwell score
\* is that of the last of them in list order, which can be lower than the score
\* of an earlier one; a stop without planned_service_min is judged against 30
\* minutes.
C28_LastDwellWins ==
    (fout.kind = "scored" /\ fin.late_by_min > 5) =>
       LET over == OverThreshold(fin.stops)
       IN  /\ over # {} =>
                 LET last == CHOOSE i \in over : \A j \in over : j <= i
                 IN  DwellCandidates =
                        {[reason |-> "facility_dwell",
                          score |-> ClaimedDwellScore(fin.stops[last])]}
           /\ over = {} => DwellCandidates = {}
           /\ (Len(fin.stops) = 1 /\ fin.stops[1].completed
               /\ fin.stops[1].planned_service_min = NoKey) =>
                 (DwellCandidates # {} <=>
                     ActualDwell(fin.stops[1]) > Minutes(36))

\* a dwell of 70 against 30 minutes (0.90) followed by one of 40 against 30
\* minutes: the candidate is registered at 0.60 + 10/60
C28_Witness ==
    /\ fout.kind = "scored" /\ fin.late_by_min > 5
    /\ fin.stops = <<Dwelt(30, 70), Dwelt(30, 40)>>
    /\ ClaimedDwellScore(fin.stops[1]) = Score(90)
    /\ DwellCandidates = {[reason |-> "facility_dwell", score |-> Score(60) + 10 * 60]}
    /\ fout.result.reason_code = "facility_dwell"
    /\ fout.result.confidence = Score(60) + 10 * 60

\* the multiplier the claims give a sample, and the worst sample of a leg: the
\* first of lowest multiplier
ClaimedMultiplier(w) ==
    IF w.alerts # <<>>
    THEN Min(LadderValue(w.precipitation_mm_h, w.wind_speed_kph), 70)
    ELSE LadderValue(w.precipitation_mm_h, w.wind_speed_kph)
WorstSample(samples) ==
    samples[CHOOSE i \in 1..Len(samples) :
               /\ \A j \in 1..Len(samples) :
                     ClaimedMultiplier(samples[i]) <= ClaimedMultiplier(samples[j])
               /\ \A j \in 1..(i - 1) :
                     ClaimedMultiplier(samples[i]) < ClaimedMultiplier(samples[j])]
\* the alert names themselves state a rain or wind magnitude
NamesStateMagnitude(alerts) ==
    LET names == JoinAlerts(alerts)
    IN  \/ ContainsWord(names, RainWords) /\ HasMagnitude(names, "mm/h")
        \/ ContainsWord(names, WindWords) /\ HasMagnitude(names, "km/h")

\* C29: when the worst weather sample of a leg carries an alert the reason text
\* handed to the classifier is made of the alert names only, and for a late
\* stop no weather-impact candidate comes of the sample's precipitation or wind
\* (not even above 10 mm/h) unless the alert names state a rain or wind
\* magnitude themselves.
C29_AlertHidesMagnitudes ==
    (fout.kind \in {"leg", "leg_scored"} /\ WorstSample(fin.samples).alerts # <<>>) =>
       LET w == WorstSample(fin.samples)
       IN  /\ fout.weather_impact = <<W("Weather"), W("alerts:")>> \o JoinAlerts(w.alerts)
           /\ (fout.kind = "leg_scored" /\ fin.late_by_min > 5
               /\ ~NamesStateMagnitude(w.alerts)) =>
                 fout.result.reason_code # "weather_impact"

\* rain of 12 mm/h under a flood warning: the stop, 20 minutes late, was not
\* attributed to the weather
C29_Witness ==
    /\ fout.kind = "leg_scored"
    /\ fin.late_by_min = 20
    /\ fin.samples = <<Sample(0, 1000, <<>>), Sample(1200, 1000, <<FloodWarning>>)>>
    /\ fout.multiplier = 60
    /\ fout.result.reason_code = "traffic_congestion"
    /\ fout.result.confidence = Score(60)

\* C30: when ingest_positions answers success=false the stored state is as it
\* was before the request: the last stored position of the vehicle is the one
\* of before (cell 0) and no ETA row has been written.
C30_ErrorLeavesStoreUnchanged ==
    response = "error" => (latest_pos = [lat |-> 0] /\ store = <<>>)

====
